---- MODULE Spec2Model ----
(***************************************************************************)
(* Model of the native transport core of android-auto-headunit:            *)
(*   ring_buffer.cpp        RingBuffer (SPSC byte ring)                    *)
(*   usb_connection.cpp     UsbConnection::processReceivedData (framer)    *)
(*   channel_dispatcher.cpp ChannelDispatcher (bounded class queues)       *)
(*   aap_message.h          channel ids and priority classes               *)
(*                                                                         *)
(* Four specifications share the variables:                                *)
(*   SpecRing   sequential use of one RingBuffer                           *)
(*   SpecSpsc   one producer and one consumer thread on one RingBuffer,    *)
(*              interleaved at the grain of single byte copies and index   *)
(*              loads/stores                                               *)
(*   SpecDisp   the ChannelDispatcher: dispatch, workers, start, stop      *)
(*   SpecFramer a byte stream cut into transfer completions, each handed   *)
(*              to processReceivedData, which dispatches into the queues   *)
(***************************************************************************)
EXTENDS Integers, Sequences, FiniteSets, TLC

(***************************************************************************)
(* Bounds of the model.  The program's sizes (512 KiB ring, 16 KiB         *)
(* transfers, queues of 64/16/32) are scaled down; the names are kept.     *)
(***************************************************************************)
\* capacity of the RingBuffer of SpecRing and SpecSpsc
RingCap == 4
\* longest data passed to one RingBuffer::write / asked of one read
MaxWriteLen == 4
\* total number of bytes passed to write in one behaviour of SpecRing
MaxWritten == 6
\* total number of bytes passed to write in one behaviour of SpecSpsc
MaxProduced == 6
\* usb_connection.cpp:14 READ_BUFFER_SIZE = 512 * 1024, scaled
READ_BUFFER_SIZE == 8
\* usb_connection.h:117 TRANSFER_SIZE = 16384, scaled (stays below the ring)
TRANSFER_SIZE == 6
\* channel_dispatcher.cpp:15-17, scaled from 64 / 16 / 32
AUDIO_QUEUE_SIZE == 3
VIDEO_QUEUE_SIZE == 1
CONTROL_QUEUE_SIZE == 2
\* number of dispatch calls in one behaviour of SpecDisp
MaxDispatch == 4
\* number of dispatch calls in one behaviour of SpecDispLive
MaxRacing == 2
\* longest body of a frame of a generated stream
MaxBody == 2
\* usb_connection.h:116 NUM_TRANSFERS = 4, scaled
NUM_TRANSFERS == 2
\* number of transfers that fail while the device is there, in one
\* behaviour of SpecUsb
MaxTransferErrors == 1
\* number of startReading calls that get past the checks, in one behaviour
\* of SpecUsb
MaxStarts == 2
\* the same, in one behaviour of SpecJni
MaxJniStarts == 1
\* number of libusb_alloc_transfer calls that fail, in one behaviour
MaxAllocFailures == 1
\* number of messages the framer completes in one behaviour of SpecLock
MaxLockMsgs == 3
\* number of failed transfers in one behaviour of SpecLock
MaxLockErrors == 1

VARIABLES
  \* ---- RingBuffer (ring_buffer.h:82-88)
  ring,        \* [capacity, buffer, writePos, readPos]
  wlog,        \* history: every byte passed to write, in order
  rlog,        \* history: every byte returned by read, in order
  aux,         \* SpecRing: the last call, its argument and result
  prod,        \* SpecSpsc: the producer thread inside write()
  cons,        \* SpecSpsc: the consumer thread inside read()/peek()/skip()
  \* ---- ChannelDispatcher (channel_dispatcher.h:98-118)
  running_,    \* std::atomic<bool> running_
  queue,       \* per class: MessageQueue::queue_
  shutdown,    \* per class: MessageQueue::shutdown_
  stats_,      \* Stats
  worker,      \* per class: where the worker thread is, and its local msg
  stopper,     \* where the thread inside stop() is
  delivered,   \* history, per class: the callback invocations
  dispatchLog, \* history, per class: the dispatch calls
  pushLog,     \* history, per class: what each push did
  \* ---- UsbConnection framer (usb_connection.cpp:288-359)
  stream,      \* the bytes the device sends
  fed,         \* how many of them have been handed to processReceivedData
  framer,      \* readingHeader_, headerBuf_, headerPos_, message*_
  sent,        \* history: the dispatcher_->dispatch calls of the framer
  scenario,    \* which family the stream was drawn from
  trickle,     \* TRUE while every call so far supplied exactly one byte
  \* ---- UsbConnection reading (usb_connection.h:105-137)
  usb,         \* running_, deviceHandle_, transfers_, eventThread_
  libusb,      \* the library and the device: what is in flight, unplugged
  evt,         \* the event thread: where it is in eventLoop / transferCallback
  host,        \* the thread inside startReading / stopReading / close
  usbLog,      \* history: error callback invocations, releases
  \* ---- ConnectionHandle (jni_bridge.cpp:16-19)
  handle,      \* the JNI call in progress, the state of the dispatcher object
  \* ---- the mutexes (channel_dispatcher.h, usb_connection.h)
  lk           \* SpecLock: who holds each mutex, the event thread's position

ringVars   == <<ring, wlog, rlog, aux, prod, cons>>
dispVars   == <<running_, queue, shutdown, stats_, worker, stopper,
                delivered, dispatchLog, pushLog>>
framerVars == <<stream, fed, framer, sent, scenario, trickle>>
usbVars    == <<usb, libusb, evt, host, usbLog>>
jniVars    == <<handle>>
lockVars   == <<lk>>
vars       == <<ringVars, dispVars, framerVars, usbVars, jniVars, lockVars>>

Min(a, b) == IF a < b THEN a ELSE b

\* a sequence s is a prefix of t
IsPrefix(s, t) == Len(s) <= Len(t) /\ SubSeq(t, 1, Len(s)) = s

(***************************************************************************)
(* RingBuffer, ring_buffer.cpp                                             *)
(***************************************************************************)
\* The storage is new uint8_t[capacity]: its bytes are indeterminate until
\* written.
Indeterminate == 0 - 1

\* RingBuffer::RingBuffer
RingBuffer(capacity) ==
  [capacity |-> capacity,
   buffer   |-> [i \in 0..(capacity - 1) |-> Indeterminate],
   writePos |-> 0,
   readPos  |-> 0]

\* write(): "Calculate available space"   (mutant: the reserved byte forgotten)
WriteSpace_NoReserve(capacity, currentWrite, currentRead) ==
  IF currentWrite >= currentRead
    THEN capacity - (currentWrite - currentRead)
    ELSE currentRead - currentWrite
WriteSpace(capacity, currentWrite, currentRead) ==
  IF currentWrite >= currentRead
    THEN capacity - (currentWrite - currentRead) - 1
    ELSE currentRead - currentWrite - 1

\* read(), peek(), skip(): "Calculate available data"
ReadAvailable(capacity, currentWrite, currentRead) ==
  IF currentWrite >= currentRead
    THEN currentWrite - currentRead
    ELSE capacity - currentRead + currentWrite

\* the index a byte of a copy of two parts lands on / comes from: byte k
\* (from 0) of a copy starting at index at
CopyIndex(capacity, at, toCopy, k) ==
  LET firstPart == Min(toCopy, capacity - at)
  IN  IF k < firstPart THEN at + k ELSE k - firstPart

\* the two memcpy calls of write()
CopyIn(rb, at, data, toWrite) ==
  [i \in 0..(rb.capacity - 1) |->
     IF \E k \in 0..(toWrite - 1) : CopyIndex(rb.capacity, at, toWrite, k) = i
       THEN data[1 + CHOOSE k \in 0..(toWrite - 1) :
                        CopyIndex(rb.capacity, at, toWrite, k) = i]
       ELSE rb.buffer[i]]

\* the two memcpy calls of read() and peek()
\* (mutant: the second memcpy, of the part that wrapped, is missing, so that
\* part of the destination keeps whatever it held)
CopyOut_FirstPartOnly(rb, at, toRead) ==
  [k \in 1..toRead |->
     IF k - 1 < Min(toRead, rb.capacity - at)
       THEN rb.buffer[at + k - 1]
       ELSE Indeterminate]
CopyOut(rb, at, toRead) ==
  [k \in 1..toRead |-> rb.buffer[CopyIndex(rb.capacity, at, toRead, k - 1)]]

\* the new position of write(), read() and skip()
\* (mutant: the position is not reduced modulo the capacity)
Advance_NoWrap(capacity, pos, n) == pos + n
Advance(capacity, pos, n) == (pos + n) % capacity

\* RingBuffer::write: the buffer afterwards and the returned count
RingWrite(rb, data) ==
  LET currentRead  == rb.readPos
      currentWrite == rb.writePos
      available    == WriteSpace(rb.capacity, currentWrite, currentRead)
      toWrite      == Min(Len(data), available)
  IN  IF toWrite = 0
        THEN [rb |-> rb, ret |-> 0]
        ELSE [rb  |-> [rb EXCEPT
                         !.buffer   = CopyIn(rb, currentWrite, data, toWrite),
                         !.writePos = Advance(rb.capacity, currentWrite, toWrite)],
              ret |-> toWrite]

\* RingBuffer::read: the buffer afterwards, the bytes copied out, the count
RingRead(rb, maxLength) ==
  LET currentWrite == rb.writePos
      currentRead  == rb.readPos
      available    == ReadAvailable(rb.capacity, currentWrite, currentRead)
      toRead       == Min(maxLength, available)
  IN  IF toRead = 0
        THEN [rb |-> rb, data |-> <<>>, ret |-> 0]
        ELSE [rb   |-> [rb EXCEPT
                          !.readPos = Advance(rb.capacity, currentRead, toRead)],
              data |-> CopyOut(rb, currentRead, toRead),
              ret  |-> toRead]

\* RingBuffer::peek
RingPeek(rb, maxLength) ==
  LET currentWrite == rb.writePos
      currentRead  == rb.readPos
      available    == ReadAvailable(rb.capacity, currentWrite, currentRead)
      toPeek       == Min(maxLength, available)
  IN  IF toPeek = 0
        THEN [data |-> <<>>, ret |-> 0]
        ELSE [data |-> CopyOut(rb, currentRead, toPeek), ret |-> toPeek]

\* RingBuffer::skip
RingSkip(rb, length) ==
  LET currentWrite == rb.writePos
      currentRead  == rb.readPos
      available    == ReadAvailable(rb.capacity, currentWrite, currentRead)
      toSkip       == Min(length, available)
  IN  IF toSkip = 0
        THEN [rb |-> rb, ret |-> 0]
        ELSE [rb  |-> [rb EXCEPT
                         !.readPos = Advance(rb.capacity, currentRead, toSkip)],
              ret |-> toSkip]

\* RingBuffer::available
RingAvailable(rb) ==
  IF rb.writePos >= rb.readPos
    THEN rb.writePos - rb.readPos
    ELSE rb.capacity - rb.readPos + rb.writePos

\* RingBuffer::freeSpace
RingFreeSpace(rb) == rb.capacity - RingAvailable(rb) - 1

\* RingBuffer::clear
RingClear(rb) == [rb EXCEPT !.readPos = 0, !.writePos = 0]

(***************************************************************************)
(* SpecRing: one thread calls write, read, peek, skip and clear.           *)
(***************************************************************************)
\* The k-th byte ever passed to write has the value k, so that any two bytes
\* of a behaviour differ (the ring copies bytes without looking at them).
NewData(n) == [k \in 1..n |-> Len(wlog) + k]

NoCall == [op |-> "none", arg |-> <<>>, ret |-> 0, data |-> <<>>, lossy |-> FALSE]
IdleThread == [pc |-> "idle"]

RingInit ==
  /\ ring = RingBuffer(RingCap)
  /\ wlog = <<>>
  /\ rlog = <<>>
  /\ aux = NoCall
  /\ prod = IdleThread
  /\ cons = IdleThread

\* size_t written = rb.write(data, n)
RbWrite ==
  \E n \in 0..MaxWriteLen :
    /\ Len(wlog) + n <= MaxWritten
    /\ LET data == NewData(n)
           r    == RingWrite(ring, data)
       IN  /\ ring' = r.rb
           /\ wlog' = wlog \o data
           /\ aux' = [op |-> "write", arg |-> data, ret |-> r.ret, data |-> <<>>,
                      lossy |-> aux.lossy \/ r.ret < n]
    /\ UNCHANGED <<rlog, prod, cons>>

\* size_t got = rb.read(out, n)
RbRead ==
  \E n \in 0..MaxWriteLen :
    LET r == RingRead(ring, n)
    IN  /\ ring' = r.rb
        /\ rlog' = rlog \o r.data
        /\ aux' = [op |-> "read", arg |-> <<>>, ret |-> r.ret, data |-> r.data,
                   lossy |-> aux.lossy]
        /\ UNCHANGED <<wlog, prod, cons>>

\* size_t got = rb.peek(out, n)
RbPeek ==
  \E n \in 0..MaxWriteLen :
    LET r == RingPeek(ring, n)
    IN  /\ aux' = [op |-> "peek", arg |-> <<>>, ret |-> r.ret, data |-> r.data,
                   lossy |-> aux.lossy]
        /\ UNCHANGED <<ring, wlog, rlog, prod, cons>>

\* size_t got = rb.skip(n): the skipped bytes are never returned by read
RbSkip ==
  \E n \in 0..MaxWriteLen :
    LET r == RingSkip(ring, n)
    IN  /\ ring' = r.rb
        /\ aux' = [op |-> "skip", arg |-> <<>>, ret |-> r.ret, data |-> <<>>,
                   lossy |-> aux.lossy \/ r.ret > 0]
        /\ UNCHANGED <<wlog, rlog, prod, cons>>

\* rb.clear(): the unread bytes are never returned by read
RbClear ==
  /\ ring' = RingClear(ring)
  /\ aux' = [op |-> "clear", arg |-> <<>>, ret |-> 0, data |-> <<>>,
             lossy |-> aux.lossy \/ RingAvailable(ring) > 0]
  /\ UNCHANGED <<wlog, rlog, prod, cons>>

(***************************************************************************)
(* SpecSpsc: the producer thread runs write(), the consumer thread runs    *)
(* read(), peek() and skip(), one load, one byte copy or one store at a    *)
(* time.  wlog is the bytes write() accepted; the k-th accepted byte has   *)
(* the value k.                                                            *)
(***************************************************************************)
Producer0 ==
  [pc |-> "idle", data |-> <<>>, currentRead |-> 0, currentWrite |-> 0,
   toWrite |-> 0, i |-> 0]
Consumer0 ==
  [pc |-> "idle", op |-> "none", maxLength |-> 0, currentWrite |-> 0,
   currentRead |-> 0, toRead |-> 0, i |-> 0, out |-> <<>>, consumed |-> 0]

SpscInit ==
  /\ ring = RingBuffer(RingCap)
  /\ wlog = <<>>
  /\ rlog = <<>>
  /\ aux = NoCall
  /\ prod = Producer0
  /\ cons = Consumer0

\* the producer calls write(data, n)
PCall ==
  \E n \in 1..MaxWriteLen :
    /\ prod.pc = "idle"
    /\ Len(wlog) + n <= MaxProduced
    /\ prod' = [Producer0 EXCEPT !.pc = "loadRead", !.data = NewData(n)]
    /\ UNCHANGED <<ring, wlog, rlog, aux, cons>>

\* currentRead = readPos_.load(acquire)
PLoadRead ==
  /\ prod.pc = "loadRead"
  /\ prod' = [prod EXCEPT !.pc = "loadWrite", !.currentRead = ring.readPos]
  /\ UNCHANGED <<ring, wlog, rlog, aux, cons>>

\* currentWrite = writePos_.load(relaxed); available; toWrite;
\* if (toWrite == 0) return 0
PLoadWrite ==
  /\ prod.pc = "loadWrite"
  /\ LET available == WriteSpace(ring.capacity, ring.writePos, prod.currentRead)
         toWrite   == Min(Len(prod.data), available)
     IN  prod' = IF toWrite = 0
                   THEN Producer0
                   ELSE [prod EXCEPT !.pc = "copy", !.currentWrite = ring.writePos,
                                     !.toWrite = toWrite, !.i = 0]
  /\ UNCHANGED <<ring, wlog, rlog, aux, cons>>

\* one byte of the memcpy calls of write()
PCopy ==
  /\ prod.pc = "copy"
  /\ ring' = [ring EXCEPT
        !.buffer[CopyIndex(ring.capacity, prod.currentWrite, prod.toWrite, prod.i)]
          = prod.data[prod.i + 1]]
  /\ prod' = [prod EXCEPT !.i = @ + 1,
                          !.pc = IF prod.i + 1 = prod.toWrite THEN "store" ELSE "copy"]
  /\ UNCHANGED <<wlog, rlog, aux, cons>>

\* writePos_.store(newWrite, release); return toWrite
PStore ==
  /\ prod.pc = "store"
  /\ ring' = [ring EXCEPT
        !.writePos = Advance(ring.capacity, prod.currentWrite, prod.toWrite)]
  /\ wlog' = wlog \o SubSeq(prod.data, 1, prod.toWrite)
  /\ prod' = Producer0
  /\ UNCHANGED <<rlog, aux, cons>>

\* the consumer calls read(out, n), peek(out, n) or skip(n)
CCall ==
  \E op \in {"read", "peek", "skip"}, n \in 1..MaxWriteLen :
    /\ cons.pc = "idle"
    /\ cons' = [Consumer0 EXCEPT !.pc = "loadWrite", !.op = op, !.maxLength = n,
                                 !.consumed = cons.consumed]
    /\ UNCHANGED <<ring, wlog, rlog, aux, prod>>

\* currentWrite = writePos_.load(acquire)
CLoadWrite ==
  /\ cons.pc = "loadWrite"
  /\ cons' = [cons EXCEPT !.pc = "loadRead", !.currentWrite = ring.writePos]
  /\ UNCHANGED <<ring, wlog, rlog, aux, prod>>

\* currentRead = readPos_.load(relaxed); available; toRead;
\* if (toRead == 0) return 0
CLoadRead ==
  /\ cons.pc = "loadRead"
  /\ LET available == ReadAvailable(ring.capacity, cons.currentWrite, ring.readPos)
         toRead    == Min(cons.maxLength, available)
     IN  cons' = IF toRead = 0
                   THEN [Consumer0 EXCEPT !.consumed = cons.consumed]
                   ELSE [cons EXCEPT !.pc = IF cons.op = "skip" THEN "store" ELSE "copy",
                                     !.currentRead = ring.readPos,
                                     !.toRead = toRead, !.i = 0]
  /\ UNCHANGED <<ring, wlog, rlog, aux, prod>>

\* the values a copy out of a storage cell can produce
CellValues(cell) == IF cell = Indeterminate THEN {0, 255} ELSE {cell}

\* one byte of the memcpy calls of read() and peek(); peek() returns after
\* the last one
CCopy ==
  /\ cons.pc = "copy"
  /\ \E v \in CellValues(ring.buffer[CopyIndex(ring.capacity, cons.currentRead,
                                                cons.toRead, cons.i)]) :
       cons' = [cons EXCEPT
                  !.i = @ + 1,
                  !.out = Append(@, v),
                  !.pc = IF cons.i + 1 < cons.toRead THEN "copy"
                         ELSE IF cons.op = "peek" THEN "peeked" ELSE "store"]
  /\ UNCHANGED <<ring, wlog, rlog, aux, prod>>

\* return toPeek
CPeekReturn ==
  /\ cons.pc = "peeked"
  /\ cons' = [Consumer0 EXCEPT !.consumed = cons.consumed]
  /\ UNCHANGED <<ring, wlog, rlog, aux, prod>>

\* readPos_.store(newRead, release); return toRead / toSkip
CStore ==
  /\ cons.pc = "store"
  /\ ring' = [ring EXCEPT
        !.readPos = Advance(ring.capacity, cons.currentRead, cons.toRead)]
  /\ rlog' = rlog \o cons.out
  /\ cons' = [Consumer0 EXCEPT !.consumed = cons.consumed + cons.toRead]
  /\ UNCHANGED <<wlog, aux, prod>>

(***************************************************************************)
(* Channel classes, aap_message.h                                          *)
(***************************************************************************)
ID_VID == 2
ID_AU1 == 4
ID_AU2 == 5
ID_AUD == 6

isAudio(channel) == channel = ID_AUD \/ channel = ID_AU1 \/ channel = ID_AU2
isVideo(channel) == channel = ID_VID

Class == {"HIGH", "MEDIUM", "NORMAL"}

\* (mutant: only the main audio channel is taken as audio)
getChannelPriority_MainAudioOnly(channel) ==
  IF channel = ID_AUD THEN "HIGH"
  ELSE IF isVideo(channel) THEN "MEDIUM"
  ELSE "NORMAL"
getChannelPriority(channel) ==
  IF isAudio(channel) THEN "HIGH"
  ELSE IF isVideo(channel) THEN "MEDIUM"
  ELSE "NORMAL"

(***************************************************************************)
(* ChannelDispatcher, channel_dispatcher.cpp                               *)
(***************************************************************************)
\* ChannelDispatcher::ChannelDispatcher: the maxSize_ of each class's queue
maxSize(c) ==
  IF c = "HIGH" THEN AUDIO_QUEUE_SIZE
  ELSE IF c = "MEDIUM" THEN VIDEO_QUEUE_SIZE
  ELSE CONTROL_QUEUE_SIZE

\* MessageQueue::push under mutex_: the queue afterwards and the result
\* (mutants: a full queue is appended to; shutdown_ is not looked at)
MQ_push_Unbounded(q, isShutdown, max, msg) ==
  IF isShutdown
    THEN [queue |-> q, ok |-> FALSE]
    ELSE [queue |-> Append(q, msg), ok |-> TRUE]
MQ_push_NoShutdownCheck(q, isShutdown, max, msg) ==
  IF Len(q) >= max
    THEN [queue |-> Tail(q), ok |-> FALSE]
    ELSE [queue |-> Append(q, msg), ok |-> TRUE]
MQ_push(q, isShutdown, max, msg) ==
  IF isShutdown
    THEN [queue |-> q, ok |-> FALSE]
    ELSE IF Len(q) >= max
      THEN [queue |-> Tail(q), ok |-> FALSE]
      ELSE [queue |-> Append(q, msg), ok |-> TRUE]

\* MessageQueue::pop, once the wait is over and the queue is not empty:
\* the message taken and the queue afterwards
\* (mutant: the newest entry is taken instead of the oldest)
MQ_take_Newest(q) ==
  [msg |-> q[Len(q)], queue |-> SubSeq(q, 1, Len(q) - 1)]
MQ_take(q) == [msg |-> Head(q), queue |-> Tail(q)]

\* MessageQueue::pop: the predicate of cv_.wait
PopReady(q, isShutdown) == q # <<>> \/ isShutdown

\* MessageQueue::pop: if (shutdown_ && queue_.empty()) return false
\* (mutant: pop gives up as soon as the queue is shut down, drained or not)
PopGivesUp_NoDrain(q, isShutdown) == isShutdown
PopGivesUp(q, isShutdown) == isShutdown /\ q = <<>>

\* cv_.notify_one() / cv_.notify_all() on a queue with one worker w: a
\* worker blocked in cv_.wait wakes and evaluates the predicate again
\* (mutant: the notification wakes nobody)
Woken_Nobody(w) == w
Woken(w) == IF w.pc = "waiting" THEN [w EXCEPT !.pc = "pop"] ELSE w

\* ChannelDispatcher::stop: if (!running_.exchange(false)) return
\* (mutant: stop() goes on whatever running_ was)
AlreadyStopped_Never(wasRunning) == FALSE
AlreadyStopped(wasRunning) == ~wasRunning

Stats0 ==
  [audioMessagesDispatched   |-> 0,
   videoMessagesDispatched   |-> 0,
   controlMessagesDispatched |-> 0,
   audioQueueDrops           |-> 0,
   videoQueueDrops           |-> 0]

\* the switch of dispatch(): the counters after a push to class c that
\* returned ok
CountDispatch(st, c, ok) ==
  IF c = "HIGH"
    THEN IF ok THEN [st EXCEPT !.audioMessagesDispatched = @ + 1]
               ELSE [st EXCEPT !.audioQueueDrops = @ + 1]
  ELSE IF c = "MEDIUM"
    THEN IF ok THEN [st EXCEPT !.videoMessagesDispatched = @ + 1]
               ELSE [st EXCEPT !.videoQueueDrops = @ + 1]
  ELSE [st EXCEPT !.controlMessagesDispatched = @ + 1]

\* what one push did, for the history: the message, whether the queue was
\* shut down or full when it came, whether it was enqueued, and the entry
\* the push removed
PushRecord(q, isShutdown, max, msg, r) ==
  [msg      |-> msg,
   shutdown |-> isShutdown,
   full     |-> Len(q) >= max,
   ok       |-> r.ok,
   evicted  |-> IF Len(r.queue) < Len(q) THEN <<Head(q)>> ELSE <<>>]

\* ChannelDispatcher::dispatch on a dispatcher D = [queue, shutdown, stats,
\* log, pushes, notified]: the dispatcher afterwards; notified collects the
\* classes whose cv_ push has notified
dispatch(D, channel, data) ==
  LET msg      == [channel |-> channel, data |-> data]
      priority == getChannelPriority(channel)
      r        == MQ_push(D.queue[priority], D.shutdown[priority],
                          maxSize(priority), msg)
  IN  [queue    |-> [D.queue EXCEPT ![priority] = r.queue],
       shutdown |-> D.shutdown,
       stats    |-> CountDispatch(D.stats, priority, r.ok),
       log      |-> [D.log EXCEPT ![priority] = Append(@, msg)],
       pushes   |-> [D.pushes EXCEPT ![priority] =
                       Append(@, PushRecord(D.queue[priority], D.shutdown[priority],
                                            maxSize(priority), msg, r))],
       notified |-> IF r.ok THEN D.notified \cup {priority} ELSE D.notified]

TheDispatcher ==
  [queue |-> queue, shutdown |-> shutdown, stats |-> stats_, log |-> dispatchLog,
   pushes |-> pushLog, notified |-> {}]

\* the workers after the notifications of the pushes that led to D
Notify(D) == [c \in Class |-> IF c \in D.notified THEN Woken(worker[c]) ELSE worker[c]]

NoMsg == [channel |-> 0, data |-> <<>>]

\* the state after construction: no thread, open empty queues
DispInit ==
  /\ running_ = FALSE
  /\ queue = [c \in Class |-> <<>>]
  /\ shutdown = [c \in Class |-> FALSE]
  /\ stats_ = Stats0
  /\ worker = [c \in Class |-> [pc |-> "none", msg |-> NoMsg]]
  /\ stopper = "idle"
  /\ delivered = [c \in Class |-> <<>>]
  /\ dispatchLog = [c \in Class |-> <<>>]
  /\ pushLog = [c \in Class |-> <<>>]

\* how many dispatch calls there have been
Dispatched == Len(dispatchLog["HIGH"]) + Len(dispatchLog["MEDIUM"])
                + Len(dispatchLog["NORMAL"])

\* the channels the dispatch calls of SpecDisp are made on
DispChannels == {0, ID_VID, ID_AUD}

\* dispatcher.dispatch(channel, data, length) by the USB event thread; the
\* n-th call carries the one byte n, so that any two messages differ
DispatchUpTo(max) ==
  \E channel \in DispChannels :
    /\ Dispatched < max
    /\ LET D == dispatch(TheDispatcher, channel, <<Dispatched + 1>>)
       IN  /\ queue' = D.queue
           /\ stats_' = D.stats
           /\ dispatchLog' = D.log
           /\ pushLog' = D.pushes
           /\ worker' = Notify(D)
    /\ UNCHANGED <<running_, shutdown, stopper, delivered>>

Dispatch == DispatchUpTo(MaxDispatch)

\* (mutant: start() opens the queues again)
Start_Reopens ==
  /\ stopper = "idle"
  /\ ~running_
  /\ running_' = TRUE
  /\ shutdown' = [c \in Class |-> FALSE]
  /\ worker' = [c \in Class |-> [pc |-> "pop", msg |-> NoMsg]]
  /\ UNCHANGED <<queue, stats_, stopper, delivered, dispatchLog, pushLog>>

\* ChannelDispatcher::start, called while no stop() is in progress
Start ==
  /\ stopper = "idle"
  /\ ~running_
  /\ running_' = TRUE
  /\ worker' = [c \in Class |-> [pc |-> "pop", msg |-> NoMsg]]
  /\ UNCHANGED <<queue, shutdown, stats_, stopper, delivered, dispatchLog, pushLog>>

\* a worker inside MessageQueue::pop, holding mutex_: it blocks in cv_.wait
\* while the queue is empty and open, returns false at shutdown once the
\* queue is drained (and the worker ends), or takes the front
WorkerPop(c) ==
  /\ worker[c].pc = "pop"
  /\ IF ~PopReady(queue[c], shutdown[c])
       THEN /\ worker' = [worker EXCEPT ![c].pc = "waiting"]
            /\ UNCHANGED queue
     ELSE IF PopGivesUp(queue[c], shutdown[c])
       THEN /\ worker' = [worker EXCEPT ![c].pc = "exited"]
            /\ UNCHANGED queue
       ELSE LET t == MQ_take(queue[c])
            IN  /\ worker' = [worker EXCEPT ![c] = [pc |-> "callback", msg |-> t.msg]]
                /\ queue' = [queue EXCEPT ![c] = t.queue]
  /\ UNCHANGED <<running_, shutdown, stats_, stopper, delivered, dispatchLog, pushLog>>

\* the worker runs the class's callback on the message it popped (the
\* three callbacks are registered by nativeOpen, jni_bridge.cpp:171-173)
WorkerCallback(c) ==
  /\ worker[c].pc = "callback"
  /\ delivered' = [delivered EXCEPT ![c] = Append(@, worker[c].msg)]
  /\ worker' = [worker EXCEPT ![c].pc = "pop"]
  /\ UNCHANGED <<running_, queue, shutdown, stats_, stopper, dispatchLog, pushLog>>

\* ChannelDispatcher::stop, step by step: the exchange, the three
\* shutdown() calls (each the locked store, then notify_all), the three joins
StopBegin ==
  /\ stopper = "idle"
  /\ running_' = FALSE
  /\ stopper' = IF AlreadyStopped(running_) THEN "return" ELSE "shutdown_HIGH"
  /\ UNCHANGED <<queue, shutdown, stats_, worker, delivered, dispatchLog, pushLog>>

\* return; // Already stopped
StopReturn ==
  /\ stopper = "return"
  /\ stopper' = "idle"
  /\ UNCHANGED <<running_, queue, shutdown, stats_, worker, delivered,
                 dispatchLog, pushLog>>

AfterShutdown(c) ==
  IF c = "HIGH" THEN "shutdown_MEDIUM"
  ELSE IF c = "MEDIUM" THEN "shutdown_NORMAL"
  ELSE "join_HIGH"

AfterJoin(c) ==
  IF c = "HIGH" THEN "join_MEDIUM"
  ELSE IF c = "MEDIUM" THEN "join_NORMAL"
  ELSE "idle"

\* MessageQueue::shutdown: shutdown_ = true under mutex_
StopShutdown(c) ==
  /\ stopper = "shutdown_" \o c
  /\ shutdown' = [shutdown EXCEPT ![c] = TRUE]
  /\ stopper' = "notify_" \o c
  /\ UNCHANGED <<running_, queue, stats_, worker, delivered, dispatchLog, pushLog>>

\* MessageQueue::shutdown: cv_.notify_all()
StopNotify(c) ==
  /\ stopper = "notify_" \o c
  /\ worker' = [worker EXCEPT ![c] = Woken(@)]
  /\ stopper' = AfterShutdown(c)
  /\ UNCHANGED <<running_, queue, shutdown, stats_, delivered, dispatchLog, pushLog>>

\* if (thread.joinable()) thread.join()
StopJoin(c) ==
  /\ stopper = "join_" \o c
  /\ worker[c].pc = "exited"
  /\ worker' = [worker EXCEPT ![c].pc = "none"]
  /\ stopper' = AfterJoin(c)
  /\ UNCHANGED <<running_, queue, shutdown, stats_, delivered, dispatchLog, pushLog>>

(***************************************************************************)
(* The framer, UsbConnection::processReceivedData, usb_connection.cpp      *)
(***************************************************************************)
\* the framer's fields before the first byte: awaiting a header, nothing
\* accumulated
Framer0 ==
  [readingHeader   |-> TRUE,
   headerBuf       |-> <<0, 0, 0, 0>>,
   headerPos       |-> 0,
   messageExpected |-> 0,
   messagePos      |-> 0,
   messageBuf      |-> <<>>]

\* (flags & 0x08) == 0x08          (mutant: no validation of the flags)
FlagsValid_Always(flags) == TRUE
FlagsValid(flags) == (flags \div 8) % 2 = 1

\* (uint16_t(headerBuf_[2]) << 8) | headerBuf_[3]
\* (mutant: the length read little-endian)
DecodeLength_LittleEndian(b2, b3) == (b3 * 256 + b2) % 65536
DecodeLength(b2, b3) == (b2 * 256 + b3) % 65536

\* headerPos_ += got                (mutant: headerPos_ = got)
HeaderFill_Forget(headerPos, got) == got
HeaderFill(headerPos, got) == headerPos + got

\* "Try to resync by skipping a byte": the header accumulator and its fill
\* count after a failed flag check
\* (mutant: the whole window of four bytes is discarded)
Resync_DropWindow(headerBuf) == [headerBuf |-> headerBuf, headerPos |-> 0]
\* (mutant: the three bytes kept are not moved down)
Resync_NoShift(headerBuf) == [headerBuf |-> headerBuf, headerPos |-> 3]
Resync(headerBuf) ==
  [headerBuf |-> <<headerBuf[2], headerBuf[3], headerBuf[4], headerBuf[4]>>,
   headerPos |-> 3]

\* if (messagePos_ < messageExpected_) break
\* (mutant: the message is taken as complete one byte early)
BodyIncomplete_OneShort(messagePos, messageExpected) ==
  messagePos + 1 < messageExpected
BodyIncomplete(messagePos, messageExpected) == messagePos < messageExpected

\* size_t needed = messageExpected_ - messagePos_
\* (mutant: one byte fewer is asked of the ring)
BodyNeeded_OneLess(messageExpected, messagePos) ==
  IF messageExpected - messagePos > 0 THEN messageExpected - messagePos - 1 ELSE 0
BodyNeeded(messageExpected, messagePos) == messageExpected - messagePos

\* std::vector::resize: kept elements, then zeros
Resize(buf, n) ==
  IF n = Len(buf) THEN buf
  ELSE [i \in 1..n |-> IF i <= Len(buf) THEN buf[i] ELSE 0]

\* bytes src copied into dst from offset at (from 0)
Place(dst, at, src) ==
  [i \in 1..Len(dst) |->
     IF at < i /\ i <= at + Len(src) THEN src[i - at] ELSE dst[i]]

\* The while (true) loop on P = [f: the framer's fields, rb: readBuffer_,
\* out: the messages dispatched so far in this call]; Pump is one pass from
\* the top of the loop, Body one from "Try to read message body".
\* f.messageBuf is the part of messageBuf_ written since its resize, the
\* header and the first messagePos_ body bytes; the message dispatched is
\* messageBuf_ whole, of messageExpected_ + 4 bytes.
RECURSIVE Pump(_), Body(_)
Pump(P) ==
  IF ~P.f.readingHeader
    THEN Body(P)
    ELSE
      LET f         == P.f
          needed    == 4 - f.headerPos
          r         == RingRead(P.rb, needed)
          headerBuf == Place(f.headerBuf, f.headerPos, r.data)
          headerPos == HeaderFill(f.headerPos, r.ret)
          flags     == headerBuf[2]
          encLen    == DecodeLength(headerBuf[3], headerBuf[4])
      IN  IF headerPos < 4
            THEN [P EXCEPT !.rb = r.rb,
                           !.f.headerBuf = headerBuf,
                           !.f.headerPos = headerPos]
          ELSE IF ~FlagsValid(flags)
            THEN Pump([P EXCEPT !.rb = r.rb,
                                !.f.headerBuf = Resync(headerBuf).headerBuf,
                                !.f.headerPos = Resync(headerBuf).headerPos])
          ELSE IF encLen > 65535
            THEN Pump([P EXCEPT !.rb = r.rb,
                                !.f.headerBuf = headerBuf,
                                !.f.headerPos = 0])
          ELSE Body([P EXCEPT
                 !.rb = r.rb,
                 !.f = [readingHeader   |-> FALSE,
                        headerBuf       |-> headerBuf,
                        headerPos       |-> 0,
                        messageExpected |-> encLen,
                        messagePos      |-> 0,
                        messageBuf      |-> headerBuf]])
Body(P) ==
  LET f          == P.f
      needed     == BodyNeeded(f.messageExpected, f.messagePos)
      r          == RingRead(P.rb, needed)
      messageBuf == f.messageBuf \o r.data
      messagePos == f.messagePos + r.ret
      whole      == Resize(messageBuf, f.messageExpected + 4)
  IN  IF BodyIncomplete(messagePos, f.messageExpected)
        THEN [P EXCEPT !.rb = r.rb,
                       !.f.messageBuf = messageBuf,
                       !.f.messagePos = messagePos]
        ELSE Pump([rb  |-> r.rb,
                   f   |-> [f EXCEPT !.messageBuf = messageBuf,
                                     !.messagePos = messagePos,
                                     !.readingHeader = TRUE],
                   out |-> Append(P.out,
                                  [channel |-> whole[1], data |-> whole])])

\* processReceivedData(data, length) on the framer's fields f and the ring
\* rb: the fields and the ring afterwards, the messages passed to
\* dispatcher_->dispatch in order, and whether the ring took all of data
processReceivedData(f, rb, data) ==
  LET w == RingWrite(rb, data)
      P == Pump([f |-> f, rb |-> w.rb, out |-> <<>>])
  IN  [f |-> P.f, rb |-> P.rb, out |-> P.out, overflow |-> w.ret < Len(data)]

\* the dispatcher after the dispatch calls for msgs, in order
RECURSIVE DispatchAll(_, _)
DispatchAll(D, msgs) ==
  IF msgs = <<>>
    THEN D
    ELSE DispatchAll(dispatch(D, Head(msgs).channel, Head(msgs).data), Tail(msgs))

\* processReceivedData on the next n bytes of the stream, and the dispatch
\* calls it makes
Received(n) ==
  /\ LET data == SubSeq(stream, fed + 1, fed + n)
         r    == processReceivedData(framer, ring, data)
         D    == DispatchAll(TheDispatcher, r.out)
     IN  /\ ring' = r.rb
         /\ framer' = r.f
         /\ sent' = sent \o r.out
         /\ aux' = [aux EXCEPT !.lossy = @ \/ r.overflow]
         /\ queue' = D.queue
         /\ stats_' = D.stats
         /\ dispatchLog' = D.log
         /\ pushLog' = D.pushes
         /\ worker' = Notify(D)
  /\ fed' = fed + n
  /\ trickle' = (trickle /\ n = 1)
  /\ UNCHANGED <<wlog, rlog, prod, cons, running_, shutdown, stopper,
                 delivered, stream, scenario>>

\* a transfer completes with the next n bytes of the stream:
\* handleTransferComplete -> processReceivedData
ReceiveData ==
  \E n \in 1..TRANSFER_SIZE :
    /\ fed + n <= Len(stream)
    /\ Received(n)
    /\ UNCHANGED <<usbVars, jniVars, lockVars>>

(***************************************************************************)
(* UsbConnection reading: startReading, stopReading, close, submitTransfer, *)
(* transferCallback, eventLoop, usb_connection.cpp.  libusb and the device *)
(* are the environment: a submitted transfer is in flight until its        *)
(* completion is delivered, by a callback run inside                       *)
(* libusb_handle_events on the event thread; libusb_cancel_transfer only   *)
(* asks for a completion with status cancelled.                            *)
(***************************************************************************)
Slots == 0..(NUM_TRANSFERS - 1)

\* struct Transfer: nullptr is FALSE
Transfer0 == [transfer |-> FALSE, buffer |-> FALSE, pending |-> FALSE]

\* the connection after open(), not reading
Usb0 ==
  [running_      |-> FALSE,
   deviceHandle_ |-> TRUE,
   transfers_    |-> [i \in Slots |-> Transfer0],
   eventThread_  |-> "none"]
\* libusb and the device: the state of each slot's transfer; the slots of
\* which an earlier transfer is in flight still, freed by stopReading
\* (orphans) or dropped by startReading without being freed (leaked);
\* whether the device is gone
Libusb0 ==
  [flight |-> [i \in Slots |-> "idle"], orphans |-> {}, leaked |-> {},
   gone |-> FALSE]
Evt0 == [pc |-> "none", slot |-> 0, status |-> "none"]
Host0 == [pc |-> "idle", i |-> 0, op |-> "none", noop |-> FALSE]
UsbLog0 ==
  [errors |-> <<>>, freedInFlight |-> {}, starts |-> 0, stopped |-> FALSE,
   again |-> FALSE, reallocated |-> {}, allocFailures |-> 0]

\* the mutexes: mutex_ of each class's MessageQueue, statsMutex_ of the
\* dispatcher, callbackMutex_ of the connection
Mutexes == Class \cup {"stats", "callback"}

\* no mutex held; the event thread between two completions
Lk0 ==
  [holder |-> [m \in Mutexes |-> "free"],
   ev     |-> [pc |-> "idle", channel |-> 0, ok |-> FALSE],
   errors |-> 0]

\* the handle nativeOpen stored: no call in progress, the dispatcher
\* constructed, no dispatch yet on a dispatcher being destroyed (late) or
\* destroyed (dangling)
Handle0 ==
  [call |-> "idle", dispatcher |-> "alive", late |-> FALSE, dangling |-> FALSE]

UsbIdle ==
  /\ usb = Usb0
  /\ libusb = Libusb0
  /\ evt = Evt0
  /\ host = Host0
  /\ usbLog = UsbLog0
  /\ handle = Handle0
  /\ lk = Lk0

\* std::terminate has not been called
Alive == host.pc # "terminated"

\* the results libusb_submit_transfer can give for slot i: refused when the
\* device is gone or the transfer is in flight already, and it can fail
\* otherwise too
SubmitResults(lib, i) ==
  IF lib.gone \/ lib.flight[i] # "idle" THEN {FALSE} ELSE {TRUE, FALSE}

\* submitTransfer: the slot's flag and what is in flight after a submission
\* that libusb accepted (ok) or refused
submitTransfer(t, flight, ok) ==
  [t      |-> [t EXCEPT !.pending = ok],
   flight |-> IF ok THEN "submitted" ELSE flight]

\* the statuses the completion of a transfer can carry
Failures ==
  Len(SelectSeq(usbLog.errors, LAMBDA e : e.code = "LIBUSB_TRANSFER_ERROR"))
Statuses(flight) ==
  IF flight = "cancelling"
    THEN {"LIBUSB_TRANSFER_CANCELLED", "LIBUSB_TRANSFER_COMPLETED"}
  ELSE IF libusb.gone
    THEN {"LIBUSB_TRANSFER_NO_DEVICE"}
  ELSE {"LIBUSB_TRANSFER_COMPLETED"}
         \cup (IF Failures < MaxTransferErrors THEN {"LIBUSB_TRANSFER_ERROR"} ELSE {})

\* the results libusb_handle_events_timeout_completed can give
HandleResults ==
  {"LIBUSB_SUCCESS", "LIBUSB_ERROR_INTERRUPTED"}
    \cup (IF libusb.gone THEN {"LIBUSB_ERROR_NO_DEVICE"} ELSE {})

\* transfers_[i].pending as stopReading reads it: a plain bool that the
\* event thread writes, so while that thread runs the read is a data race
PendingSeen(i) ==
  IF evt.pc \in {"none", "exited"} THEN {usb.transfers_[i].pending} ELSE BOOLEAN

\* stopReading: if (!running_.exchange(false)) return
ReadingAlreadyStopped(wasRunning) == ~wasRunning

\* the device is unplugged
DeviceDisappears ==
  /\ Alive
  /\ ~libusb.gone
  /\ libusb' = [libusb EXCEPT !.gone = TRUE]
  /\ UNCHANGED <<usb, evt, host, usbLog>>

\* startReading up to the loop: the exchange and the check of deviceHandle_;
\* at most max calls get past the checks
HostStartReadingUpTo(max) ==
  /\ Alive
  /\ host.pc = "idle"
  /\ usbLog.starts < max
  /\ IF usb.running_ \/ ~usb.deviceHandle_
       THEN UNCHANGED <<usb, host, usbLog>>
       ELSE /\ usb' = [usb EXCEPT !.running_ = TRUE]
            /\ host' = [Host0 EXCEPT !.pc = "start_alloc", !.op = "startReading"]
            /\ usbLog' = [usbLog EXCEPT !.starts = @ + 1]
  /\ UNCHANGED <<libusb, evt>>

HostStartReading == HostStartReadingUpTo(MaxStarts)

\* the results libusb_alloc_transfer can give: a transfer (TRUE) or nullptr
AllocResults(max) ==
  IF usbLog.allocFailures < max THEN {TRUE, FALSE} ELSE {TRUE}

\* one pass of "Allocate and submit transfers": t.transfer is overwritten
\* with what libusb_alloc_transfer returns, whatever it held; a transfer of
\* the slot that is in flight still stays in flight.  On nullptr:
\* setError, running_ = false, return.  Otherwise t.buffer is overwritten
\* with a new buffer and the new transfer is submitted, another transfer to
\* libusb.  At most max allocations fail.
HostStartSlotUpTo(max) ==
  /\ Alive
  /\ host.pc = "start_alloc"
  /\ LET stale == libusb.flight[host.i] # "idle"
         lib   == IF stale
                    THEN [libusb EXCEPT !.flight[host.i] = "idle",
                                        !.leaked = @ \cup {host.i}]
                    ELSE libusb
         log   == IF stale
                    THEN [usbLog EXCEPT !.reallocated = @ \cup {host.i}]
                    ELSE usbLog
     IN  \E allocated \in AllocResults(max) :
           IF ~allocated
             THEN /\ usb' = [usb EXCEPT !.transfers_[host.i].transfer = FALSE,
                                        !.running_ = FALSE]
                  /\ libusb' = lib
                  /\ usbLog' = [log EXCEPT !.allocFailures = @ + 1]
                  /\ host' = Host0
             ELSE /\ \E ok \in SubmitResults(lib, host.i) :
                       LET t == [transfer |-> TRUE, buffer |-> TRUE, pending |-> FALSE]
                           r == submitTransfer(t, lib.flight[host.i], ok)
                       IN  /\ usb' = [usb EXCEPT !.transfers_[host.i] = r.t]
                           /\ libusb' = [lib EXCEPT !.flight[host.i] = r.flight]
                  /\ usbLog' = log
                  /\ host' = IF host.i + 1 < NUM_TRANSFERS
                               THEN [host EXCEPT !.i = @ + 1]
                               ELSE [host EXCEPT !.pc = "start_thread", !.i = 0]
  /\ UNCHANGED evt

HostStartSlot == HostStartSlotUpTo(MaxAllocFailures)

\* eventThread_ = std::thread(...): assigning to a thread that is still
\* joinable calls std::terminate
HostStartThread ==
  /\ Alive
  /\ host.pc = "start_thread"
  /\ IF usb.eventThread_ = "joinable"
       THEN /\ host' = [host EXCEPT !.pc = "terminated"]
            /\ UNCHANGED <<usb, evt>>
       ELSE /\ usb' = [usb EXCEPT !.eventThread_ = "joinable"]
            /\ evt' = [Evt0 EXCEPT !.pc = "check"]
            /\ host' = Host0
  /\ UNCHANGED <<libusb, usbLog>>

\* stopReading, called directly or by close(): the exchange
HostStopReading ==
  \E op \in {"stopReading", "close"} :
    /\ Alive
    /\ host.pc = "idle"
    /\ usb' = [usb EXCEPT !.running_ = FALSE]
    /\ host' = IF ReadingAlreadyStopped(usb.running_)
                 THEN [Host0 EXCEPT !.pc = "stop_return", !.op = op, !.noop = TRUE]
                 ELSE [Host0 EXCEPT !.pc = "stop_cancel", !.op = op]
    /\ usbLog' = [usbLog EXCEPT
                    !.again = @ \/ (ReadingAlreadyStopped(usb.running_) /\ usbLog.stopped)]
    /\ UNCHANGED <<libusb, evt>>

\* one pass of "Cancel pending transfers"
HostStopCancel ==
  /\ Alive
  /\ host.pc = "stop_cancel"
  /\ \E pending \in PendingSeen(host.i) :
       libusb' = IF /\ usb.transfers_[host.i].transfer
                    /\ pending
                    /\ libusb.flight[host.i] = "submitted"
                   THEN [libusb EXCEPT !.flight[host.i] = "cancelling"]
                   ELSE libusb
  /\ host' = IF host.i + 1 < NUM_TRANSFERS
               THEN [host EXCEPT !.i = @ + 1]
               ELSE [host EXCEPT !.pc = "stop_join", !.i = 0]
  /\ UNCHANGED <<usb, evt, usbLog>>

\* if (eventThread_.joinable()) eventThread_.join()
HostStopJoin ==
  /\ Alive
  /\ host.pc = "stop_join"
  /\ usb.eventThread_ = "joinable" => evt.pc = "exited"
  /\ usb' = [usb EXCEPT !.eventThread_ = "none"]
  /\ evt' = Evt0
  /\ host' = [host EXCEPT !.pc = "stop_free"]
  /\ UNCHANGED <<libusb, usbLog>>

\* the slots whose transfer is in flight
InFlight == {i \in Slots : usb.transfers_[i].transfer /\ libusb.flight[i] # "idle"}

\* "Free transfers": every slot's transfer and buffer.  A transfer freed in
\* flight stays in flight: libusb and the device go on with the freed
\* transfer and the freed buffer
HostStopFree ==
  /\ Alive
  /\ host.pc = "stop_free"
  /\ usb' = [usb EXCEPT
       !.transfers_ = [i \in Slots |-> [@[i] EXCEPT !.transfer = FALSE,
                                                    !.buffer = FALSE]]]
  /\ usbLog' = [usbLog EXCEPT !.freedInFlight = @ \cup InFlight,
                              !.stopped = TRUE]
  /\ libusb' = [libusb EXCEPT
       !.flight = [i \in Slots |-> IF i \in InFlight THEN "idle" ELSE @[i]],
       !.orphans = @ \cup InFlight]
  /\ host' = [host EXCEPT !.pc = "stop_return"]
  /\ UNCHANGED evt

\* stopReading returns, to its caller or into close()
HostStopReturn ==
  /\ Alive
  /\ host.pc = "stop_return"
  /\ host' = IF host.op = "close" THEN [host EXCEPT !.pc = "close_device"] ELSE Host0
  /\ UNCHANGED <<usb, libusb, evt, usbLog>>

\* close() after stopReading: the interface, the handle, the context
HostCloseDevice ==
  /\ Alive
  /\ host.pc = "close_device"
  /\ usb' = [usb EXCEPT !.deviceHandle_ = FALSE]
  /\ host' = Host0
  /\ UNCHANGED <<libusb, evt, usbLog>>

\* eventLoop: while (running_)
EvLoopCheck ==
  /\ Alive
  /\ evt.pc = "check"
  /\ evt' = [evt EXCEPT !.pc = IF usb.running_ THEN "handle" ELSE "exited"]
  /\ UNCHANGED <<usb, libusb, host, usbLog>>

\* libusb_handle_events_timeout_completed returns, and the rest of the loop
\* body
EvHandleReturn ==
  /\ Alive
  /\ evt.pc = "handle"
  /\ \E rc \in HandleResults :
       IF rc = "LIBUSB_ERROR_NO_DEVICE"
         THEN /\ usb' = [usb EXCEPT !.running_ = FALSE]
              /\ usbLog' = [usbLog EXCEPT !.errors =
                   Append(@, [code |-> rc, message |-> "USB device disconnected"])]
              /\ evt' = [evt EXCEPT !.pc = "exited"]
         ELSE /\ evt' = [evt EXCEPT !.pc = "check"]
              /\ UNCHANGED <<usb, usbLog>>
  /\ UNCHANGED <<libusb, host>>

\* transferCallback, with reading running and the transfer not cancelled:
\* the else branch, which reports to errorCallback_
\* (mutant: every completion is reported)
TransferFailed_Always(status) == TRUE
TransferFailed(status) == status # "LIBUSB_TRANSFER_COMPLETED"

\* transferCallback up to "Resubmit for next read", run by libusb inside
\* libusb_handle_events for a transfer that was in flight: the slot's
\* transfer, or one that startReading dropped, whose user_data is the slot
\* still; a completed transfer carries the next n bytes of the stream
EvCallback ==
  \E i \in Slots, dropped \in BOOLEAN :
    /\ Alive
    /\ evt.pc = "handle"
    /\ IF dropped THEN i \in libusb.leaked ELSE libusb.flight[i] # "idle"
    /\ libusb' = IF dropped
                   THEN [libusb EXCEPT !.leaked = @ \ {i}]
                   ELSE [libusb EXCEPT !.flight[i] = "idle"]
    /\ usb' = [usb EXCEPT !.transfers_[i].pending = FALSE]
    /\ \E status \in Statuses(IF dropped THEN "submitted" ELSE libusb.flight[i]) :
         IF ~usb.running_ \/ status = "LIBUSB_TRANSFER_CANCELLED"
           THEN UNCHANGED <<evt, usbLog, ringVars, dispVars, framerVars>>
           ELSE /\ evt' = [pc |-> "resubmit", slot |-> i, status |-> status]
                /\ IF status = "LIBUSB_TRANSFER_COMPLETED"
                     THEN \E n \in 0..Min(TRANSFER_SIZE, Len(stream) - fed) :
                            IF n > 0
                              THEN Received(n)
                              ELSE UNCHANGED <<ringVars, dispVars, framerVars>>
                     ELSE UNCHANGED <<ringVars, dispVars, framerVars>>
                /\ usbLog' = IF TransferFailed(status)
                               THEN [usbLog EXCEPT !.errors = Append(@,
                                      [code |-> status, message |-> "USB transfer failed"])]
                               ELSE usbLog
    /\ UNCHANGED host

\* libusb_handle_events comes to the completion of a transfer that
\* stopReading freed in flight: it reads freed memory, which is undefined;
\* either nothing comes of it or the process dies
EvOrphan ==
  \E i \in libusb.orphans :
    /\ Alive
    /\ evt.pc = "handle"
    /\ libusb' = [libusb EXCEPT !.orphans = @ \ {i}]
    /\ \E dies \in BOOLEAN :
         host' = IF dies THEN [host EXCEPT !.pc = "terminated"] ELSE host
    /\ UNCHANGED <<usb, evt, usbLog>>

\* transferCallback: if (running_) submitTransfer(*t), and the return into
\* libusb_handle_events
EvResubmit ==
  /\ Alive
  /\ evt.pc = "resubmit"
  /\ IF usb.running_
       THEN \E ok \in SubmitResults(libusb, evt.slot) :
              LET r == submitTransfer(usb.transfers_[evt.slot],
                                      libusb.flight[evt.slot], ok)
              IN  /\ usb' = [usb EXCEPT !.transfers_[evt.slot] = r.t]
                  /\ libusb' = [libusb EXCEPT !.flight[evt.slot] = r.flight]
       ELSE UNCHANGED <<usb, libusb>>
  /\ evt' = [evt EXCEPT !.pc = "handle"]
  /\ UNCHANGED <<host, usbLog>>

(***************************************************************************)
(* The JNI entry points on one handle, jni_bridge.cpp, called one after    *)
(* the other: nativeStartReading, nativeStopReading, nativeClose.  The     *)
(* calls they make are the actions above; handle.call says which call is   *)
(* to be made next.                                                        *)
(***************************************************************************)
\* nativeStartReading: h->dispatcher->start()
JniStartDispatcher ==
  /\ Alive
  /\ handle.call = "idle"
  /\ usbLog.starts < MaxJniStarts
  /\ IF running_ THEN UNCHANGED dispVars ELSE Start
  /\ handle' = [handle EXCEPT !.call = "startReading"]
  /\ UNCHANGED <<ringVars, framerVars, usbVars, lockVars>>

\* nativeStartReading: h->connection->startReading()
JniStartConnection ==
  /\ handle.call = "startReading"
  /\ HostStartReadingUpTo(MaxJniStarts)
  /\ handle' = [handle EXCEPT !.call = "return"]
  /\ UNCHANGED <<ringVars, dispVars, framerVars, lockVars>>

\* nativeStopReading: h->connection->stopReading()
JniStopConnection ==
  /\ handle.call = "idle"
  /\ HostStopReading
  /\ host'.op = "stopReading"
  /\ handle' = [handle EXCEPT !.call = "stop"]
  /\ UNCHANGED <<ringVars, dispVars, framerVars, lockVars>>

\* nativeStopReading: h->dispatcher->stop(), once stopReading has returned
JniStopDispatcher ==
  /\ Alive
  /\ handle.call = "stop"
  /\ host.pc = "idle"
  /\ StopBegin
  /\ handle' = [handle EXCEPT !.call = "return"]
  /\ UNCHANGED <<ringVars, framerVars, usbVars, lockVars>>

\* nativeClose: handles.erase(it) destroys the ConnectionHandle, its members
\* in the reverse of their order of declaration: the dispatcher first,
\* whose destructor calls stop()
JniCloseDispatcher ==
  /\ Alive
  /\ handle.call = "idle"
  /\ StopBegin
  /\ handle' = [handle EXCEPT !.call = "closeDispatcher", !.dispatcher = "destroying"]
  /\ UNCHANGED <<ringVars, framerVars, usbVars, lockVars>>

\* nativeClose: stop() has returned; the members of the dispatcher are
\* destroyed and its memory is released
JniDestroyDispatcher ==
  /\ Alive
  /\ handle.call = "closeDispatcher"
  /\ stopper = "idle"
  /\ handle' = [handle EXCEPT !.call = "closeConnection", !.dispatcher = "destroyed"]
  /\ UNCHANGED <<ringVars, dispVars, framerVars, usbVars, lockVars>>

\* nativeClose: then the connection, whose destructor calls close()
JniCloseConnection ==
  /\ handle.call = "closeConnection"
  /\ HostStopReading
  /\ host'.op = "close"
  /\ handle' = [handle EXCEPT !.call = "closeReturn"]
  /\ UNCHANGED <<ringVars, dispVars, framerVars, lockVars>>

\* the JNI call returns; after nativeClose the handle is not in the map
JniReturn ==
  /\ Alive
  /\ handle.call \in {"return", "closeReturn"}
  /\ host.pc = "idle"
  /\ stopper = "idle"
  /\ handle' = [handle EXCEPT !.call = IF @ = "return" THEN "idle" ELSE "closed"]
  /\ UNCHANGED <<ringVars, dispVars, framerVars, usbVars, lockVars>>

\* transferCallback on the event thread; dispatcher_ is the pointer that
\* nativeOpen registered, whatever has become of the object
JniEvCallback ==
  /\ EvCallback
  /\ handle' = [handle EXCEPT
       !.late     = @ \/ (sent' # sent /\ handle.dispatcher # "alive"),
       !.dangling = @ \/ (sent' # sent /\ handle.dispatcher = "destroyed")]
  /\ UNCHANGED lockVars

\* dispatch was called on a destroyed dispatcher, which is undefined: the
\* process goes on as if the object were there still, or it dies
JniDangling ==
  /\ Alive
  /\ handle.dangling
  /\ host' = [host EXCEPT !.pc = "terminated"]
  /\ UNCHANGED <<ringVars, dispVars, framerVars, usb, libusb, evt, usbLog, handle, lockVars>>

(***************************************************************************)
(* The mutexes.  The event thread from the completion of a message in      *)
(* processReceivedData to the end of the loop body, through dispatch and   *)
(* push; the workers through pop and the callback; the two places that     *)
(* call errorCallback_.  A critical section that cannot block is one step, *)
(* taken when the mutex is free; lk.ev.pc names the mutex the event thread *)
(* is about to lock, or the call it is in.                                 *)
(***************************************************************************)
\* the mutexes thread t holds
Held(t) == {m \in Mutexes : lk.holder[m] = t}

\* MessageQueue::pop returns true: the unique_lock is destroyed, mutex_ is
\* released before the worker runs the callback
\* (mutant: the worker of class c keeps mutex_ while it runs the callback)
PopRelease_Keep(c) == c
PopRelease(c) == "free"

\* processReceivedData: a message is complete ("Message complete - dispatch
\* it"); the lock_guard on callbackMutex_ comes next
LkMessage ==
  \E channel \in DispChannels :
    /\ lk.ev.pc = "idle"
    /\ Dispatched < MaxLockMsgs
    /\ lk' = [lk EXCEPT !.ev = [pc |-> "callbackMutex", channel |-> channel, ok |-> FALSE]]
    /\ UNCHANGED dispVars

\* std::lock_guard lock(callbackMutex_); if (dispatcher_) dispatcher_->
\* dispatch(...): up to the unique_lock on mutex_ in push
LkLockCallback ==
  /\ lk.ev.pc = "callbackMutex"
  /\ lk.holder["callback"] = "free"
  /\ lk' = [lk EXCEPT !.holder["callback"] = "event", !.ev.pc = "queueMutex"]
  /\ UNCHANGED dispVars

\* MessageQueue::push under mutex_, with its notify_one, and dispatch up to
\* the lock_guard on statsMutex_
LkPush ==
  /\ lk.ev.pc = "queueMutex"
  /\ lk.holder[getChannelPriority(lk.ev.channel)] = "free"
  /\ LET c == getChannelPriority(lk.ev.channel)
         D == dispatch(TheDispatcher, lk.ev.channel, <<Dispatched + 1>>)
     IN  /\ queue' = D.queue
         /\ dispatchLog' = D.log
         /\ pushLog' = D.pushes
         /\ worker' = Notify(D)
         /\ lk' = [lk EXCEPT !.ev.pc = "statsMutex",
                             !.ev.ok = D.pushes[c][Len(D.pushes[c])].ok]
  /\ UNCHANGED <<running_, shutdown, stats_, stopper, delivered>>

\* the counter of dispatch under statsMutex_, and the return of dispatch
LkCount ==
  /\ lk.ev.pc = "statsMutex"
  /\ lk.holder["stats"] = "free"
  /\ stats_' = CountDispatch(stats_, getChannelPriority(lk.ev.channel), lk.ev.ok)
  /\ lk' = [lk EXCEPT !.ev.pc = "return"]
  /\ UNCHANGED <<running_, queue, shutdown, worker, stopper, delivered,
                 dispatchLog, pushLog>>

\* processReceivedData: readingHeader_ = true and the end of the loop body,
\* where the lock_guard releases callbackMutex_
LkUnlockCallback ==
  /\ lk.ev.pc = "return"
  /\ lk' = [lk EXCEPT !.holder["callback"] = "free", !.ev.pc = "idle"]
  /\ UNCHANGED dispVars

\* transferCallback, a failed transfer: if (errorCallback_), with no mutex
LkTransferError ==
  /\ lk.ev.pc = "idle"
  /\ lk.errors < MaxLockErrors
  /\ lk' = [lk EXCEPT !.ev.pc = "readErrorCallback", !.errors = @ + 1]
  /\ UNCHANGED dispVars

\* eventLoop, LIBUSB_ERROR_NO_DEVICE: the lock_guard on callbackMutex_, then
\* if (errorCallback_)
LkDisconnect ==
  /\ lk.ev.pc = "idle"
  /\ lk.holder["callback"] = "free"
  /\ lk' = [lk EXCEPT !.holder["callback"] = "event", !.ev.pc = "readErrorCallback"]
  /\ UNCHANGED dispVars

\* errorCallback_(...): the host's callback is called
LkErrorCall ==
  /\ lk.ev.pc = "readErrorCallback"
  /\ lk' = [lk EXCEPT !.ev.pc = "errorCallback"]
  /\ UNCHANGED dispVars

\* the host's callback returns: to transferCallback, or to eventLoop, which
\* releases callbackMutex_ at the break and ends
LkErrorReturn ==
  /\ lk.ev.pc = "errorCallback"
  /\ lk' = [lk EXCEPT !.holder["callback"] = "free",
                      !.ev.pc = IF lk.holder["callback"] = "event"
                                  THEN "exited" ELSE "idle"]
  /\ UNCHANGED dispVars

\* MessageQueue::pop under mutex_: cv_.wait releases it, the return releases
\* it
LkWorkerPop(c) ==
  /\ lk.holder[c] = "free"
  /\ WorkerPop(c)
  /\ lk' = [lk EXCEPT !.holder[c] =
              IF worker'[c].pc = "callback" THEN PopRelease(c) ELSE "free"]

\* the worker's callback returns; the worker goes back to pop
LkWorkerCallback(c) ==
  /\ WorkerCallback(c)
  /\ lk' = [lk EXCEPT !.holder[c] = "free"]

(***************************************************************************)
(* The streams of SpecFramer                                               *)
(***************************************************************************)
\* the wire format: channel, flags, length big-endian, body
Frame(channel, flags, body) ==
  <<channel, flags, Len(body) \div 256, Len(body) % 256>> \o body

SeqsUpTo(S, n) == UNION {[1..k -> S] : k \in 0..n}

\* channel ids of the three classes; 10 (navigation) has bit 0x08 set
Channels == {0, ID_VID, ID_AUD, 10}
\* flags with bit 0x08 set
GoodFlags == {8, 11}
BodyBytes == {7, 8}
\* length of the one long body, with a length field above 255
LongLen == 258

ShortFrames ==
  {Frame(c, fl, b) : c \in Channels, fl \in GoodFlags, b \in SeqsUpTo(BodyBytes, MaxBody)}
LongFrame == Frame(ID_AUD, 8, [i \in 1..LongLen |-> i % 256])
SecondFrames == {Frame(ID_AUD, 8, <<>>), Frame(0, 11, <<7>>)}

Concat(frames) ==
  IF Len(frames) = 1 THEN frames[1] ELSE frames[1] \o frames[2]

\* well-formed streams: one frame, or two
FrameLists ==
  {<<a>> : a \in ShortFrames \cup {LongFrame}}
    \cup {<<a, b>> : a \in ShortFrames, b \in SecondFrames}

\* one byte that belongs to no frame, then a valid frame
StrayBytes == {0, 6, 8}
\* a header with flags 0x00, then a valid header with a zero-length body
BadHeaders == {<<c, 0, l0, l1>> : c \in {0, 6, 8}, l0 \in {0, 8}, l1 \in {0, 1, 8}}
EmptyFrames == {Frame(c, fl, <<>>) : c \in Channels, fl \in GoodFlags}

Scenarios ==
  {[kind |-> "frames", junk |-> <<>>, frames |-> fs] : fs \in FrameLists}
    \cup {[kind |-> "stray", junk |-> <<b>>, frames |-> <<a>>] :
             b \in StrayBytes, a \in ShortFrames}
    \cup {[kind |-> "badflags", junk |-> h, frames |-> <<a>>] :
             h \in BadHeaders, a \in EmptyFrames}

\* the framed message a valid frame stands for
MessageOf(frame) == [channel |-> frame[1], data |-> frame]

(***************************************************************************)
(* The specifications                                                      *)
(***************************************************************************)
RingIdle ==
  /\ ring = RingBuffer(READ_BUFFER_SIZE)
  /\ wlog = <<>>
  /\ rlog = <<>>
  /\ aux = NoCall
  /\ prod = IdleThread
  /\ cons = IdleThread

FramerIdle ==
  /\ stream = <<>>
  /\ fed = 0
  /\ framer = Framer0
  /\ sent = <<>>
  /\ scenario = [kind |-> "none", junk |-> <<>>, frames |-> <<>>]
  /\ trickle = TRUE

\* ---- SpecRing
InitRing == RingInit /\ DispInit /\ FramerIdle /\ UsbIdle
NextRing ==
  \/ RbWrite /\ UNCHANGED <<dispVars, framerVars, usbVars, jniVars, lockVars>>
  \/ RbRead /\ UNCHANGED <<dispVars, framerVars, usbVars, jniVars, lockVars>>
  \/ RbPeek /\ UNCHANGED <<dispVars, framerVars, usbVars, jniVars, lockVars>>
  \/ RbSkip /\ UNCHANGED <<dispVars, framerVars, usbVars, jniVars, lockVars>>
  \/ RbClear /\ UNCHANGED <<dispVars, framerVars, usbVars, jniVars, lockVars>>
SpecRing == InitRing /\ [][NextRing]_vars

\* ---- SpecSpsc
InitSpsc == SpscInit /\ DispInit /\ FramerIdle /\ UsbIdle
NextSpsc ==
  \/ PCall /\ UNCHANGED <<dispVars, framerVars, usbVars, jniVars, lockVars>>
  \/ PLoadRead /\ UNCHANGED <<dispVars, framerVars, usbVars, jniVars, lockVars>>
  \/ PLoadWrite /\ UNCHANGED <<dispVars, framerVars, usbVars, jniVars, lockVars>>
  \/ PCopy /\ UNCHANGED <<dispVars, framerVars, usbVars, jniVars, lockVars>>
  \/ PStore /\ UNCHANGED <<dispVars, framerVars, usbVars, jniVars, lockVars>>
  \/ CCall /\ UNCHANGED <<dispVars, framerVars, usbVars, jniVars, lockVars>>
  \/ CLoadWrite /\ UNCHANGED <<dispVars, framerVars, usbVars, jniVars, lockVars>>
  \/ CLoadRead /\ UNCHANGED <<dispVars, framerVars, usbVars, jniVars, lockVars>>
  \/ CCopy /\ UNCHANGED <<dispVars, framerVars, usbVars, jniVars, lockVars>>
  \/ CPeekReturn /\ UNCHANGED <<dispVars, framerVars, usbVars, jniVars, lockVars>>
  \/ CStore /\ UNCHANGED <<dispVars, framerVars, usbVars, jniVars, lockVars>>
SpecSpsc == InitSpsc /\ [][NextSpsc]_vars

\* ---- SpecDisp
InitDisp == RingIdle /\ DispInit /\ FramerIdle /\ UsbIdle
NextDisp ==
  \/ Dispatch /\ UNCHANGED <<ringVars, framerVars, usbVars, jniVars, lockVars>>
  \/ Start /\ UNCHANGED <<ringVars, framerVars, usbVars, jniVars, lockVars>>
  \/ StopBegin /\ UNCHANGED <<ringVars, framerVars, usbVars, jniVars, lockVars>>
  \/ StopReturn /\ UNCHANGED <<ringVars, framerVars, usbVars, jniVars, lockVars>>
  \/ \E c \in Class : StopShutdown(c) /\ UNCHANGED <<ringVars, framerVars, usbVars, jniVars, lockVars>>
  \/ \E c \in Class : StopNotify(c) /\ UNCHANGED <<ringVars, framerVars, usbVars, jniVars, lockVars>>
  \/ \E c \in Class : StopJoin(c) /\ UNCHANGED <<ringVars, framerVars, usbVars, jniVars, lockVars>>
  \/ \E c \in Class : WorkerPop(c) /\ UNCHANGED <<ringVars, framerVars, usbVars, jniVars, lockVars>>
  \/ \E c \in Class : WorkerCallback(c) /\ UNCHANGED <<ringVars, framerVars, usbVars, jniVars, lockVars>>
SpecDisp == InitDisp /\ [][NextDisp]_vars

\* ---- SpecDispLive: the dispatcher with a few dispatch calls and the
\* threads scheduled fairly: a worker that can take a step of pop or return
\* from its callback eventually does, and so does the thread inside
\* stop().  Nothing is assumed of dispatch and start calls.
WorkerStep(c) ==
  (WorkerPop(c) \/ WorkerCallback(c)) /\ UNCHANGED <<ringVars, framerVars, usbVars, jniVars, lockVars>>
StopStep ==
  /\ \/ StopReturn
     \/ \E c \in Class : StopShutdown(c) \/ StopNotify(c) \/ StopJoin(c)
  /\ UNCHANGED <<ringVars, framerVars, usbVars, jniVars, lockVars>>
NextDispLive ==
  \/ DispatchUpTo(MaxRacing) /\ UNCHANGED <<ringVars, framerVars, usbVars, jniVars, lockVars>>
  \/ Start /\ UNCHANGED <<ringVars, framerVars, usbVars, jniVars, lockVars>>
  \/ StopBegin /\ UNCHANGED <<ringVars, framerVars, usbVars, jniVars, lockVars>>
  \/ StopReturn /\ UNCHANGED <<ringVars, framerVars, usbVars, jniVars, lockVars>>
  \/ \E c \in Class : StopShutdown(c) /\ UNCHANGED <<ringVars, framerVars, usbVars, jniVars, lockVars>>
  \/ \E c \in Class : StopNotify(c) /\ UNCHANGED <<ringVars, framerVars, usbVars, jniVars, lockVars>>
  \/ \E c \in Class : StopJoin(c) /\ UNCHANGED <<ringVars, framerVars, usbVars, jniVars, lockVars>>
  \/ \E c \in Class : WorkerPop(c) /\ UNCHANGED <<ringVars, framerVars, usbVars, jniVars, lockVars>>
  \/ \E c \in Class : WorkerCallback(c) /\ UNCHANGED <<ringVars, framerVars, usbVars, jniVars, lockVars>>
SpecDispLive ==
  /\ InitDisp
  /\ [][NextDispLive]_vars
  /\ \A c \in Class : WF_vars(WorkerStep(c))
  /\ WF_vars(StopStep)

\* ---- SpecFramer: nativeStartReading has started the dispatcher
\* (jni_bridge.cpp:216), whose workers have blocked in pop on their empty
\* queues, and reading; the device sends one of the streams
InitFramer ==
  /\ RingIdle
  /\ running_ = TRUE
  /\ queue = [c \in Class |-> <<>>]
  /\ shutdown = [c \in Class |-> FALSE]
  /\ stats_ = Stats0
  /\ worker = [c \in Class |-> [pc |-> "waiting", msg |-> NoMsg]]
  /\ stopper = "idle"
  /\ delivered = [c \in Class |-> <<>>]
  /\ dispatchLog = [c \in Class |-> <<>>]
  /\ pushLog = [c \in Class |-> <<>>]
  /\ scenario \in Scenarios
  /\ stream = scenario.junk \o Concat(scenario.frames)
  /\ fed = 0
  /\ framer = Framer0
  /\ sent = <<>>
  /\ trickle = TRUE
  /\ UsbIdle
NextFramer ==
  \/ ReceiveData
  \/ \E c \in Class : WorkerPop(c) /\ UNCHANGED <<ringVars, framerVars, usbVars, jniVars, lockVars>>
  \/ \E c \in Class : WorkerCallback(c) /\ UNCHANGED <<ringVars, framerVars, usbVars, jniVars, lockVars>>
SpecFramer == InitFramer /\ [][NextFramer]_vars

\* ---- SpecUsb: an opened connection whose dispatcher is not started.  One
\* host thread calls startReading, stopReading and close, one call after
\* the other, in any order; the event thread runs beside it; the device
\* sends UsbStream, fails transfers and may be unplugged.
\* UsbStream: two header starts that fail the flag check, then a frame with
\* a body of one byte
UsbStream == <<6, 0>> \o Frame(0, 8, <<7>>)
InitUsb ==
  /\ RingIdle
  /\ DispInit
  /\ stream = UsbStream
  /\ fed = 0
  /\ framer = Framer0
  /\ sent = <<>>
  /\ scenario = [kind |-> "usb", junk |-> <<6, 0>>, frames |-> <<Frame(0, 8, <<7>>)>>]
  /\ trickle = TRUE
  /\ UsbIdle
NextUsb ==
  \/ DeviceDisappears /\ UNCHANGED <<ringVars, dispVars, framerVars, jniVars, lockVars>>
  \/ HostStartReading /\ UNCHANGED <<ringVars, dispVars, framerVars, jniVars, lockVars>>
  \/ HostStartSlot /\ UNCHANGED <<ringVars, dispVars, framerVars, jniVars, lockVars>>
  \/ HostStartThread /\ UNCHANGED <<ringVars, dispVars, framerVars, jniVars, lockVars>>
  \/ HostStopReading /\ UNCHANGED <<ringVars, dispVars, framerVars, jniVars, lockVars>>
  \/ HostStopCancel /\ UNCHANGED <<ringVars, dispVars, framerVars, jniVars, lockVars>>
  \/ HostStopJoin /\ UNCHANGED <<ringVars, dispVars, framerVars, jniVars, lockVars>>
  \/ HostStopFree /\ UNCHANGED <<ringVars, dispVars, framerVars, jniVars, lockVars>>
  \/ HostStopReturn /\ UNCHANGED <<ringVars, dispVars, framerVars, jniVars, lockVars>>
  \/ HostCloseDevice /\ UNCHANGED <<ringVars, dispVars, framerVars, jniVars, lockVars>>
  \/ EvLoopCheck /\ UNCHANGED <<ringVars, dispVars, framerVars, jniVars, lockVars>>
  \/ EvHandleReturn /\ UNCHANGED <<ringVars, dispVars, framerVars, jniVars, lockVars>>
  \/ EvCallback /\ UNCHANGED <<jniVars, lockVars>>
  \/ EvOrphan /\ UNCHANGED <<ringVars, dispVars, framerVars, jniVars, lockVars>>
  \/ EvResubmit /\ UNCHANGED <<ringVars, dispVars, framerVars, jniVars, lockVars>>
SpecUsb == InitUsb /\ [][NextUsb]_vars

\* the connection and its dispatcher driven through the JNI entry points.
\* Reading is started once (MaxJniStarts), so no event loop runs after a
\* stopReading and no transfer freed in flight completes (EvOrphan).
NextJni ==
  \/ JniStartDispatcher
  \/ JniStartConnection
  \/ JniStopConnection
  \/ JniStopDispatcher
  \/ JniCloseDispatcher
  \/ JniDestroyDispatcher
  \/ JniCloseConnection
  \/ JniReturn
  \/ JniEvCallback
  \/ JniDangling
  \/ DeviceDisappears /\ UNCHANGED <<ringVars, dispVars, framerVars, jniVars, lockVars>>
  \/ HostStartSlot /\ UNCHANGED <<ringVars, dispVars, framerVars, jniVars, lockVars>>
  \/ HostStartThread /\ UNCHANGED <<ringVars, dispVars, framerVars, jniVars, lockVars>>
  \/ HostStopCancel /\ UNCHANGED <<ringVars, dispVars, framerVars, jniVars, lockVars>>
  \/ HostStopJoin /\ UNCHANGED <<ringVars, dispVars, framerVars, jniVars, lockVars>>
  \/ HostStopFree /\ UNCHANGED <<ringVars, dispVars, framerVars, jniVars, lockVars>>
  \/ HostStopReturn /\ UNCHANGED <<ringVars, dispVars, framerVars, jniVars, lockVars>>
  \/ HostCloseDevice /\ UNCHANGED <<ringVars, dispVars, framerVars, jniVars, lockVars>>
  \/ EvLoopCheck /\ UNCHANGED <<ringVars, dispVars, framerVars, jniVars, lockVars>>
  \/ EvHandleReturn /\ UNCHANGED <<ringVars, dispVars, framerVars, jniVars, lockVars>>
  \/ EvResubmit /\ UNCHANGED <<ringVars, dispVars, framerVars, jniVars, lockVars>>
  \/ Alive /\ StopReturn /\ UNCHANGED <<ringVars, framerVars, usbVars, jniVars, lockVars>>
  \/ \E c \in Class : Alive /\ StopShutdown(c) /\ UNCHANGED <<ringVars, framerVars, usbVars, jniVars, lockVars>>
  \/ \E c \in Class : Alive /\ StopNotify(c) /\ UNCHANGED <<ringVars, framerVars, usbVars, jniVars, lockVars>>
  \/ \E c \in Class : Alive /\ StopJoin(c) /\ UNCHANGED <<ringVars, framerVars, usbVars, jniVars, lockVars>>
  \/ \E c \in Class : Alive /\ WorkerPop(c) /\ UNCHANGED <<ringVars, framerVars, usbVars, jniVars, lockVars>>
  \/ \E c \in Class : Alive /\ WorkerCallback(c) /\ UNCHANGED <<ringVars, framerVars, usbVars, jniVars, lockVars>>
SpecJni == InitUsb /\ [][NextJni]_vars

\* the event thread and the workers of a started dispatcher, lock by lock
EventStep ==
  (LkLockCallback \/ LkPush \/ LkCount \/ LkUnlockCallback)
    /\ UNCHANGED <<ringVars, framerVars, usbVars, jniVars>>
NextLock ==
  \/ Start /\ UNCHANGED <<ringVars, framerVars, usbVars, jniVars, lockVars>>
  \/ LkMessage /\ UNCHANGED <<ringVars, framerVars, usbVars, jniVars>>
  \/ EventStep
  \/ LkTransferError /\ UNCHANGED <<ringVars, framerVars, usbVars, jniVars>>
  \/ LkDisconnect /\ UNCHANGED <<ringVars, framerVars, usbVars, jniVars>>
  \/ LkErrorCall /\ UNCHANGED <<ringVars, framerVars, usbVars, jniVars>>
  \/ LkErrorReturn /\ UNCHANGED <<ringVars, framerVars, usbVars, jniVars>>
  \/ \E c \in Class : LkWorkerPop(c) /\ UNCHANGED <<ringVars, framerVars, usbVars, jniVars>>
  \/ \E c \in Class : LkWorkerCallback(c) /\ UNCHANGED <<ringVars, framerVars, usbVars, jniVars>>
SpecLock == InitDisp /\ [][NextLock]_vars

\* the event thread is a running thread: a step of it that stays possible
\* is taken.  Nothing is assumed of the workers: a callback need not return.
SpecLockLive == SpecLock /\ WF_vars(EventStep)

(***************************************************************************)
(* Properties                                                              *)
(***************************************************************************)
RECURSIVE IsSubseq(_, _)
\* s can be had from t by deleting elements
IsSubseq(s, t) ==
  IF s = <<>> THEN TRUE
  ELSE IF t = <<>> THEN FALSE
  ELSE IF Head(s) = Head(t) THEN IsSubseq(Tail(s), Tail(t))
  ELSE IsSubseq(s, Tail(t))

\* the message a worker holds while its callback runs
InCallback(c) == IF worker[c].pc = "callback" THEN <<worker[c].msg>> ELSE <<>>

\* the messages of class c handed to its callback so far
Handed(c) == delivered[c] \o InCallback(c)

\* everything of class c that was or is still to be handed to its callback
Pipeline(c) == Handed(c) \o queue[c]

\* bit 0x08 of a byte
Bit3(b) == (b \div 8) % 2 = 1

\* the class the specification gives a channel id
ClassOf(channel) ==
  IF channel \in {4, 5, 6} THEN "HIGH"
  ELSE IF channel = 2 THEN "MEDIUM"
  ELSE "NORMAL"

\* the messages of msgs that belong to class c, in order
OfClass(msgs, c) == SelectSeq(msgs, LAMBDA m : ClassOf(m.channel) = c)

\* the unread bytes of a ring, oldest first
Contents(rb) ==
  [k \in 1..RingAvailable(rb) |-> rb.buffer[(rb.readPos + k - 1) % rb.capacity]]

\* ---- C1 ---------------------------------------------------------------
\* C1: on an open class queue of capacity N from which no worker has popped,
\* N+1 dispatch calls leave exactly the 2nd to the (N+1)th message queued:
\* only the oldest is missing and the newest is enqueued.
C1_DropOldestKeepsNewest ==
  \A c \in Class :
    (/\ ~shutdown[c]
     /\ Handed(c) = <<>>
     /\ Len(dispatchLog[c]) = maxSize(c) + 1)
    => queue[c] = SubSeq(dispatchLog[c], 2, maxSize(c) + 1)

\* ---- C2 ---------------------------------------------------------------
\* C2: for any interleaving of dispatch calls, worker pops and overflow
\* drops, the messages handed to a class's callback are a subsequence of the
\* messages dispatched to that class, in dispatch order.
C2_DeliveredInDispatchOrder ==
  \A c \in Class : IsSubseq(Handed(c), dispatchLog[c])

\* a class that lost a message to an overflow and had its callback run on
\* messages from before and after the loss
C2_Witness ==
  \E c \in Class :
    /\ Len(delivered[c]) >= 2
    /\ ~IsPrefix(delivered[c], dispatchLog[c])

\* ---- C3 ---------------------------------------------------------------
\* C3 as claimed: one stray byte followed by a valid frame, for every stray
\* byte and every channel id, makes the framer dispatch exactly the valid
\* message and no other.
C3_StrayByteThenFrame ==
  scenario.kind = "stray" =>
    LET m == MessageOf(scenario.frames[1])
    IN  /\ IsPrefix(sent, <<m>>)
        /\ fed = Len(stream) => sent = <<m>>

\* C3 amended: the same, for every valid frame whose channel id has bit 0x08
\* clear (a channel id with bit 0x08 set passes the flag check in the
\* window that starts at the stray byte).
C3_StrayByteThenFrame_LowChannel ==
  (scenario.kind = "stray" /\ ~Bit3(scenario.frames[1][1])) =>
    LET m == MessageOf(scenario.frames[1])
    IN  /\ IsPrefix(sent, <<m>>)
        /\ fed = Len(stream) => sent = <<m>>

\* a stray byte with bit 0x08 set, then a frame with a body, fed in chunks
\* of more than a byte, and the frame dispatched
C3_Witness ==
  /\ scenario.kind = "stray"
  /\ ~Bit3(scenario.frames[1][1])
  /\ Bit3(scenario.junk[1])
  /\ Len(scenario.frames[1]) > 4
  /\ fed = Len(stream)
  /\ ~trickle
  /\ sent = <<MessageOf(scenario.frames[1])>>

\* ---- C4 ---------------------------------------------------------------
RECURSIVE FedInFullChunks(_, _)
\* the framer and ring after the first k bytes of s were supplied in chunks
\* as large as a transfer allows (the last one the remainder), and the
\* messages dispatched
FedInFullChunks(s, k) ==
  IF k = 0
    THEN [f |-> Framer0, rb |-> RingBuffer(READ_BUFFER_SIZE), out |-> <<>>]
    ELSE LET n      == IF k % TRANSFER_SIZE = 0 THEN TRANSFER_SIZE
                       ELSE k % TRANSFER_SIZE
             before == FedInFullChunks(s, k - n)
             r      == processReceivedData(before.f, before.rb,
                                           SubSeq(s, k - n + 1, k))
         IN  [f |-> r.f, rb |-> r.rb, out |-> before.out \o r.out]

\* C4: however a well-formed stream is cut into chunks for successive
\* processReceivedData calls, one byte at a time included, the messages
\* dispatched after any number of its bytes are those dispatched when the
\* same bytes come in the largest chunks (a stream that fits one transfer:
\* in a single chunk).
C4_ChunkingIndependent ==
  (scenario.kind = "frames" /\ ~aux.lossy) =>
    sent = FedInFullChunks(stream, fed).out

\* two frames supplied whole one byte per call, past the end of the ring's
\* storage, both dispatched
C4_Witness ==
  /\ scenario.kind = "frames"
  /\ Len(scenario.frames) = 2
  /\ trickle
  /\ ~aux.lossy
  /\ fed = Len(stream)
  /\ fed > READ_BUFFER_SIZE
  /\ sent = <<MessageOf(scenario.frames[1]), MessageOf(scenario.frames[2])>>

\* ---- C5 ---------------------------------------------------------------
\* C5: a valid frame of body length L supplied one byte per call: nothing
\* is dispatched before byte 4+L, and exactly one message of 4+L bytes has
\* been dispatched once byte 4+L is supplied.
C5_TrickleDispatchesOnLastByte ==
  (scenario.kind = "frames" /\ Len(scenario.frames) = 1 /\ trickle) =>
    /\ fed < Len(stream) => sent = <<>>
    /\ fed = Len(stream) => Len(sent) = 1 /\ Len(sent[1].data) = Len(stream)

\* a frame on channel 0x0A with a body, trickled to its last byte
C5_Witness ==
  /\ scenario.kind = "frames"
  /\ Len(scenario.frames) = 1
  /\ trickle
  /\ stream[1] = 10
  /\ Len(stream) = 4 + MaxBody
  /\ fed = Len(stream)
  /\ Len(sent) = 1

\* ---- C6 ---------------------------------------------------------------
\* C6: a valid header (channel c, length L) followed by exactly L body
\* bytes yields exactly one dispatched message: the 4 header bytes followed
\* by the L body bytes, L+4 in all, tagged with channel c, which is queued
\* for and handed to the callback of c's class only.
C6_OneFrameOneMessage ==
  (scenario.kind = "frames" /\ Len(scenario.frames) = 1 /\ fed = Len(stream)) =>
    LET c == stream[1]
        L == stream[3] * 256 + stream[4]
    IN  /\ sent = <<[channel |-> c, data |-> stream]>>
        /\ Len(sent[1].data) = L + 4
        /\ \A k \in Class :
             Pipeline(k) = IF k = ClassOf(c) THEN sent ELSE <<>>

\* the frame with a body of more than 255 bytes, handed to the audio callback
C6_Witness ==
  /\ scenario.kind = "frames"
  /\ stream = LongFrame
  /\ delivered["HIGH"] = <<MessageOf(LongFrame)>>

\* ---- C7 ---------------------------------------------------------------
\* C7 as claimed: a header with flags 0x00, for every value of its channel
\* and length bytes, followed by a valid header with a zero-length body:
\* exactly the 4-byte frame is delivered, nothing else.
C7_BadFlagsThenEmptyFrame ==
  scenario.kind = "badflags" =>
    LET m == MessageOf(scenario.frames[1])
    IN  /\ IsPrefix(sent, <<m>>)
        /\ fed = Len(stream) => sent = <<m>>
        /\ \A k \in Class : Pipeline(k) = OfClass(sent, k)

\* C7 amended: the same, when the two length bytes of the rejected header
\* and the channel id of the valid header have bit 0x08 clear (each of them
\* is the flags byte of one of the windows tried during the resync).
C7_BadFlagsThenEmptyFrame_LowBytes ==
  (/\ scenario.kind = "badflags"
   /\ ~Bit3(scenario.junk[3])
   /\ ~Bit3(scenario.junk[4])
   /\ ~Bit3(scenario.frames[1][1])) =>
    LET m == MessageOf(scenario.frames[1])
    IN  /\ IsPrefix(sent, <<m>>)
        /\ fed = Len(stream) => sent = <<m>>
        /\ \A k \in Class : Pipeline(k) = OfClass(sent, k)

\* the rejected header with a channel byte that has bit 0x08 set, the
\* zero-length frame delivered to its callback
C7_Witness ==
  /\ scenario.kind = "badflags"
  /\ Bit3(scenario.junk[1])
  /\ ~Bit3(scenario.junk[3])
  /\ ~Bit3(scenario.junk[4])
  /\ ~Bit3(scenario.frames[1][1])
  /\ fed = Len(stream)
  /\ \E k \in Class : delivered[k] = <<MessageOf(scenario.frames[1])>>

\* ---- C8 ---------------------------------------------------------------
\* the storage index of byte k (from 0) of the producer's / consumer's copy
PIndex(k) == CopyIndex(ring.capacity, prod.currentWrite, prod.toWrite, k)

\* C8: with one thread in write() and one in read()/peek()/skip(), every
\* byte the consumer has copied out is the byte of the stream it is meant
\* to be (written in full by the producer), and every storage byte the
\* producer is still to overwrite holds nothing the consumer has not
\* consumed.
C8_SpscNoRace ==
  /\ \A j \in 1..Len(cons.out) : cons.out[j] = cons.consumed + j
  /\ prod.pc = "copy" =>
       \A k \in prod.i..(prod.toWrite - 1) :
         \/ ring.buffer[PIndex(k)] = Indeterminate
         \/ ring.buffer[PIndex(k)] <= cons.consumed

\* both threads in the middle of their copies, the storage already reused
C8_Witness ==
  /\ prod.pc = "copy"
  /\ cons.pc = "copy"
  /\ cons.i >= 1
  /\ Len(wlog) >= RingCap

\* ---- C9 ---------------------------------------------------------------
\* C9: as long as no write was cut short (and nothing skipped or cleared),
\* the bytes returned by read are the bytes passed to write, in order: a
\* prefix of them, and all of them once the ring is empty.
C9_RoundTrip ==
  ~aux.lossy =>
    /\ IsPrefix(rlog, wlog)
    /\ RingAvailable(ring) = 0 => rlog = wlog

\* a read across the end of the storage that returned the last bytes written
C9_Witness ==
  /\ ~aux.lossy
  /\ aux.op = "read"
  /\ aux.ret >= 2
  /\ ring.readPos >= 1
  /\ ring.readPos < aux.ret
  /\ rlog = wlog

\* ---- C10 --------------------------------------------------------------
\* C10: write(data, n) with n > freeSpace() stores exactly the first
\* freeSpace() bytes of data after the unread bytes, which stay as they
\* were, returns that count and leaves the ring full; with freeSpace() = 0
\* it returns 0 and changes nothing.
C10_WriteBeyondFreeSpace ==
  [][(wlog' # wlog /\ Len(wlog') - Len(wlog) > RingFreeSpace(ring)) =>
       LET free == RingFreeSpace(ring)
           data == SubSeq(wlog', Len(wlog) + 1, Len(wlog'))
       IN  /\ aux'.ret = free
           /\ Contents(ring') = Contents(ring) \o SubSeq(data, 1, free)
           /\ RingFreeSpace(ring') = 0
           /\ free = 0 => ring' = ring]_vars

\* a write cut short that wrapped around the end of the storage
C10_Witness ==
  /\ aux.op = "write"
  /\ aux.ret >= 2
  /\ aux.ret < Len(aux.arg)
  /\ ring.writePos < ring.readPos
  /\ ring.writePos >= 1
  /\ RingFreeSpace(ring) = 0

\* ---- C11 --------------------------------------------------------------
\* C11: after any sequence of write, read, peek, skip and clear calls,
\* available() + freeSpace() = capacity - 1, available() lies in
\* 0..capacity-1 and both positions lie in 0..capacity-1.
C11_AvailablePlusFree ==
  /\ RingAvailable(ring) + RingFreeSpace(ring) = ring.capacity - 1
  /\ 0 <= RingAvailable(ring)
  /\ RingAvailable(ring) <= ring.capacity - 1
  /\ ring.writePos \in 0..(ring.capacity - 1)
  /\ ring.readPos \in 0..(ring.capacity - 1)

\* a full ring whose write position has wrapped to below the read position
\* after a clear and further writes and reads
C11_Witness ==
  /\ aux.lossy
  /\ aux.op = "write"
  /\ RingAvailable(ring) = ring.capacity - 1
  /\ RingFreeSpace(ring) = 0
  /\ ring.writePos < ring.readPos
  /\ rlog # <<>>

\* ---- C16 --------------------------------------------------------------
\* the messages whose push found the queue of class c shut down
Late(c) ==
  {pushLog[c][k].msg : k \in {j \in 1..Len(pushLog[c]) : pushLog[c][j].shutdown}}

InSeq(m, s) == \E k \in 1..Len(s) : s[k] = m

\* C16: a dispatch call made after stop() has signalled shutdown to the
\* queue of the channel's class adds its message to no queue, and the
\* message is handed to no delivery callback.
C16_RejectedAfterShutdown ==
  \A c \in Class : \A m \in Late(c) : \A k \in Class : ~InSeq(m, Pipeline(k))

\* all three queues shut down, a dispatch made after that, while the worker
\* of its class is still draining what was queued before
C16_Witness ==
  /\ \A c \in Class : shutdown[c]
  /\ \E c \in Class :
       /\ Late(c) # {}
       /\ worker[c].pc = "callback"
       /\ queue[c] # <<>>

\* ---- C17 --------------------------------------------------------------
\* C17: with every callback returning and the threads scheduled, a stop()
\* call on a started dispatcher returns, and at its return the three
\* workers have ended and been joined, whether they were blocked in pop or
\* busy when shutdown was signalled, and whatever dispatch calls come
\* meanwhile.
C17_StopReturns ==
  (stopper = "shutdown_HIGH") ~>
     (stopper = "idle" /\ \A c \in Class : worker[c].pc = "none")

\* shutdown_ of the audio queue is set and its worker is blocked in
\* cv_.wait, not yet notified, with messages dispatched before
C17_Witness ==
  /\ stopper = "notify_HIGH"
  /\ worker["HIGH"].pc = "waiting"
  /\ worker["NORMAL"].pc = "callback"
  /\ Dispatched >= 2

\* ---- C18 --------------------------------------------------------------
\* the messages push enqueued on the queue of class c, in order
Accepted(c) ==
  LET oks == SelectSeq(pushLog[c], LAMBDA p : p.ok)
  IN  [k \in 1..Len(oks) |-> oks[k].msg]

\* the messages an overflow removed from the queue of class c
Evicted(c) ==
  {pushLog[c][k].evicted[1] :
     k \in {j \in 1..Len(pushLog[c]) : pushLog[c][j].evicted # <<>>}}

NoDup(s) == \A i, j \in 1..Len(s) : s[i] = s[j] => i = j

\* stop() has returned on a started dispatcher
Stopped == stopper \in {"idle", "return"} /\ \A c \in Class : shutdown[c]

\* C18: a message enqueued on a class queue is handed to that class's
\* callback at most once and to no other; once stop() has returned on a
\* started dispatcher, every enqueued message that no overflow removed has
\* been handed to the callback exactly once, those still queued at
\* shutdown included.
C18_DeliveredOnce ==
  \A c \in Class :
    /\ NoDup(Handed(c))
    /\ \A k \in 1..Len(Handed(c)) :
         /\ InSeq(Handed(c)[k], Accepted(c))
         /\ \A d \in Class \ {c} : ~InSeq(Handed(c)[k], Handed(d))
    /\ Stopped =>
         delivered[c] = SelectSeq(Accepted(c), LAMBDA m : m \notin Evicted(c))

\* stop() has returned; the video queue had lost a message to an overflow,
\* and the workers handed over what was left
C18_Witness ==
  /\ Stopped
  /\ Evicted("MEDIUM") # {}
  /\ delivered["MEDIUM"] # <<>>
  /\ delivered["NORMAL"] # <<>>

\* ---- C19 --------------------------------------------------------------
\* the counters of a class; Stats has no drop counter for the control class
DispatchedOf(st, c) ==
  IF c = "HIGH" THEN st.audioMessagesDispatched
  ELSE IF c = "MEDIUM" THEN st.videoMessagesDispatched
  ELSE st.controlMessagesDispatched
HasDropCounter(c) == c \in {"HIGH", "MEDIUM"}
DropsOf(st, c) ==
  IF c = "HIGH" THEN st.audioQueueDrops ELSE st.videoQueueDrops

\* the push of this step, if it is one on class c that found the open queue
\* full
FoundFull(c) ==
  /\ Len(pushLog[c]') = Len(pushLog[c]) + 1
  /\ pushLog[c]'[Len(pushLog[c]')].full
  /\ ~pushLog[c]'[Len(pushLog[c]')].shutdown

\* C19: for each of the three classes, a dispatch that finds the class's
\* queue full adds one to the class's drop counter and nothing to its
\* dispatched counter; no counter ever decreases.
C19_DropCounted ==
  [][\A c \in Class :
       /\ DispatchedOf(stats_', c) >= DispatchedOf(stats_, c)
       /\ HasDropCounter(c) => DropsOf(stats_', c) >= DropsOf(stats_, c)
       /\ FoundFull(c) =>
            /\ HasDropCounter(c)
            /\ DropsOf(stats_', c) = DropsOf(stats_, c) + 1
            /\ DispatchedOf(stats_', c) = DispatchedOf(stats_, c)]_vars

\* ---- C12 --------------------------------------------------------------
\* the event thread has been joined and no slot holds a transfer or a buffer
Released ==
  /\ usb.eventThread_ = "none"
  /\ evt.pc = "none"
  /\ \A i \in Slots : ~usb.transfers_[i].transfer /\ ~usb.transfers_[i].buffer

\* C12: whenever stopReading() returns, called directly or by close(), the
\* event thread has been joined and the transfer and the buffer of every
\* slot have been released, also when the event loop had ended itself on a
\* disconnect.
C12_StopReleases == host.pc = "stop_return" => Released

\* ---- C13 --------------------------------------------------------------
\* C13: stopReading() frees no slot whose transfer is still in flight, and
\* the event thread does not exit while a transfer that stopReading()
\* cancelled still awaits its completion callback.
C13_NoFreeInFlight ==
  /\ usbLog.freedInFlight = {}
  /\ evt.pc = "exited" => \A i \in Slots : libusb.flight[i] # "cancelling"

\* ---- C14 --------------------------------------------------------------
\* this step is transferCallback finding a status that is neither completed
\* nor cancelled, while reading is running
ErrorCompletion ==
  /\ evt.pc = "handle"
  /\ evt'.pc = "resubmit"
  /\ evt'.status \notin {"LIBUSB_TRANSFER_COMPLETED", "LIBUSB_TRANSFER_CANCELLED"}

\* this step is the return of transferCallback from such a completion, with
\* reading still running
ErrorCompletionReturns ==
  /\ evt.pc = "resubmit"
  /\ evt'.pc = "handle"
  /\ evt.status \notin {"LIBUSB_TRANSFER_COMPLETED", "LIBUSB_TRANSFER_CANCELLED"}
  /\ usb.running_

\* C14: while reading is running, a completion whose status is neither
\* completed nor cancelled calls the error callback once with that status,
\* and when transferCallback returns the slot is in flight again.
C14_ErrorResubmits ==
  [][/\ ErrorCompletion =>
          usbLog'.errors = Append(usbLog.errors,
                                  [code |-> evt'.status, message |-> "USB transfer failed"])
     /\ ErrorCompletionReturns => libusb'.flight[evt.slot] = "submitted"]_vars

\* ---- C15 --------------------------------------------------------------
\* the error callback's invocations that report the device gone, by a
\* transfer status or by the result of libusb_handle_events
Disconnects ==
  SelectSeq(usbLog.errors,
            LAMBDA e : e.code \in {"LIBUSB_TRANSFER_NO_DEVICE", "LIBUSB_ERROR_NO_DEVICE"})

\* C15: the disappearance of the device reaches the error callback at most
\* once: not once for each transfer slot, and not again after the event
\* loop has reported it.
C15_DisconnectOnce == Len(Disconnects) <= 1

\* ---- C20 --------------------------------------------------------------
\* the dispatcher's state, and the connection's with the transfers in
\* flight, the event thread and what the error callback and the frees did
DispatcherState == <<running_, queue, shutdown, stats_, worker, delivered>>
ReadingState == <<usb, libusb, evt, usbLog.errors, usbLog.freedInFlight>>

\* this step is the call of ChannelDispatcher::stop() on a dispatcher that
\* is not running, or a later step of such a call
StopAgainCalled == stopper = "idle" /\ stopper' # "idle" /\ ~running_
StopAgainGoesOn == stopper = "return" /\ stopper' # "return"

\* this step is the call of stopReading() on a connection that is not
\* reading, or a later step of such a call (a step of the calling thread,
\* not the end of the process brought about by the event thread)
StopReadingAgainCalled ==
  /\ host.pc = "idle"
  /\ host'.pc # "idle"
  /\ host'.op \in {"stopReading", "close"}
  /\ ~usb.running_
StopReadingAgainGoesOn ==
  host.pc = "stop_return" /\ host.noop /\ host' # host /\ host'.pc # "terminated"

\* C20: stop() called on a dispatcher that is not running (a first stop()
\* has returned, or start() was never called) only returns: it changes
\* nothing of the dispatcher, shuts no queue down and joins no worker; and
\* stopReading() called on a connection that is not reading only returns:
\* it changes nothing of the connection, cancels nothing, joins no thread
\* and frees no slot.
C20_StopAgainIsNoOp ==
  [][/\ StopAgainCalled => stopper' = "return" /\ UNCHANGED DispatcherState
     /\ StopAgainGoesOn => stopper' = "idle" /\ UNCHANGED DispatcherState
     /\ StopReadingAgainCalled =>
          host'.pc = "stop_return" /\ host'.noop /\ UNCHANGED ReadingState
     /\ StopReadingAgainGoesOn =>
          /\ host'.pc = IF host.op = "close" THEN "close_device" ELSE "idle"
          /\ UNCHANGED ReadingState]_vars

\* stopReading() has been called again after a stopReading() that joined
\* and freed, and a stop() called after a stop() that shut every queue
\* down is returning
C20_Witness ==
  /\ usbLog.again
  /\ stopper = "return"
  /\ \A c \in Class : shutdown[c] /\ worker[c].pc = "none"

\* ---- C22 --------------------------------------------------------------
\* the channel ids a header byte can carry
ChannelIds == 0..255

\* getChannelPriority gives every id a class, and the one specified
ChannelMapAsSpecified ==
  \A ch \in ChannelIds :
    /\ getChannelPriority(ch) \in Class
    /\ getChannelPriority(ch) = ClassOf(ch)

\* C22: every channel id in 0..255 has one class, High for 4, 5 and 6,
\* Medium for 2 and Normal for every other id; and a message dispatched on
\* a channel is recorded, queued and handed to a callback only in the class
\* of its channel.
C22_OneClassPerChannel ==
  /\ ChannelMapAsSpecified
  /\ \A c \in Class :
       /\ \A k \in 1..Len(dispatchLog[c]) : ClassOf(dispatchLog[c][k].channel) = c
       /\ \A k \in 1..Len(Pipeline(c)) :
            /\ ClassOf(Pipeline(c)[k].channel) = c
            /\ InSeq(Pipeline(c)[k], dispatchLog[c])
            /\ \A d \in Class \ {c} : ~InSeq(Pipeline(c)[k], dispatchLog[d])

\* each class has had a message handed to its callback, and the control
\* queue holds another
C22_Witness ==
  /\ \A c \in Class : delivered[c] # <<>>
  /\ queue["NORMAL"] # <<>>

\* ---- C24 --------------------------------------------------------------
\* the bytes handed to the framer so far
FedBytes == SubSeq(stream, 1, fed)

\* the offsets of s at which four bytes pass the flag check
HeaderStarts(s) == {k \in 0..(Len(s) - 4) : Bit3(s[k + 2])}
FirstHeaderStart(s) == CHOOSE k \in HeaderStarts(s) : \A j \in HeaderStarts(s) : k <= j

\* the header the framer accepted first
FirstAccepted ==
  IF sent # <<>> THEN SubSeq(sent[1].data, 1, 4)
  ELSE IF ~framer.readingHeader THEN SubSeq(framer.messageBuf, 1, 4)
  ELSE <<>>

\* C24: from the start of the stream the framer tries every offset as a
\* header start, in order: as long as no four bytes received pass the flag
\* check it has accepted nothing and holds the last bytes received (three of
\* them once four have arrived) in order at the front of the header
\* accumulator; and the first header it accepts is the one at the first
\* offset that passes.
C24_SlidesByOneByte ==
  IF HeaderStarts(FedBytes) = {}
    THEN /\ FirstAccepted = <<>>
         /\ framer.headerPos = Min(fed, 3)
         /\ SubSeq(framer.headerBuf, 1, framer.headerPos)
              = SubSeq(stream, fed - framer.headerPos + 1, fed)
    ELSE FirstAccepted =
           SubSeq(stream, FirstHeaderStart(FedBytes) + 1, FirstHeaderStart(FedBytes) + 4)

\* four header starts in a row were rejected and the fifth was accepted
C24_Witness ==
  /\ HeaderStarts(FedBytes) # {}
  /\ FirstHeaderStart(FedBytes) = 4
  /\ sent # <<>>

\* ---- C29 --------------------------------------------------------------
\* C29: between processReceivedData calls the ring buffer holds no unread
\* byte, and with completions of at most TRANSFER_SIZE bytes no write to it
\* was ever cut short.
C29_RingDrained ==
  /\ RingAvailable(ring) = 0
  /\ RingFreeSpace(ring) >= TRANSFER_SIZE
  /\ ~aux.lossy

\* more bytes than the ring holds have gone through it, and several calls
\* have left part of a body in the accumulator
C29_Witness ==
  /\ fed > READ_BUFFER_SIZE
  /\ ~framer.readingHeader
  /\ framer.messagePos > TRANSFER_SIZE
  /\ ring.writePos < ring.capacity - 1

\* ---- C25 --------------------------------------------------------------
\* C25: a class queue is shut down only by the thread inside stop() and is
\* never opened again, not by a later start() either; on a queue that is
\* shut down no push adds a message, pop still hands its entries to the
\* worker from the front, one at a time, and a worker's pop returns false
\* (the worker ends) only when the queue is shut down and empty.
C25_ShutdownIsFinal ==
  [][\A c \in Class :
       /\ shutdown[c] => shutdown'[c]
       /\ (~shutdown[c] /\ shutdown'[c]) => stopper = "shutdown_" \o c
       /\ (shutdown[c] /\ queue'[c] # queue[c]) =>
            /\ queue[c] # <<>>
            /\ queue'[c] = Tail(queue[c])
            /\ worker'[c] = [pc |-> "callback", msg |-> Head(queue[c])]
       /\ (worker[c].pc # "exited" /\ worker'[c].pc = "exited") =>
            shutdown[c] /\ queue[c] = <<>>]_vars

\* the dispatcher was started again after a stop(): it runs with every
\* queue still shut down, a push has been refused, a worker of the second
\* start has ended and messages were delivered
C25_Witness ==
  /\ running_
  /\ \A c \in Class : shutdown[c]
  /\ \E c \in Class : worker[c].pc = "exited"
  /\ \E c \in Class : \E k \in 1..Len(pushLog[c]) : pushLog[c][k].shutdown
  /\ \E c \in Class : delivered[c] # <<>>

\* ---- C26 --------------------------------------------------------------
\* how many transfers of slot i are in flight
InFlightOf(i) ==
  (IF libusb.flight[i] # "idle" THEN 1 ELSE 0)
    + (IF i \in libusb.orphans THEN 1 ELSE 0)
    + (IF i \in libusb.leaked THEN 1 ELSE 0)

\* C26: no slot has more than one transfer in flight, and no slot was given
\* a new transfer while its previous one was in flight.
C26_OneInFlightPerSlot ==
  /\ \A i \in Slots : InFlightOf(i) <= 1
  /\ usbLog.reallocated = {}

\* ---- C27 --------------------------------------------------------------
\* C27: after stopReading() the framer state and the unread ring bytes are
\* discarded: when a subsequent startReading() begins, the framer awaits
\* the first byte of a frame header and the ring is empty, so the first
\* byte received next is read as the first byte of a header.
C27_RestartAtHeader ==
  (host.pc = "start_alloc" /\ usbLog.stopped) =>
    /\ framer.readingHeader
    /\ framer.headerPos = 0
    /\ RingAvailable(ring) = 0

\* ---- C23 --------------------------------------------------------------
\* this step hands the framer the bytes that complete at least one header
\* start which fails the flag check
HeaderRejected ==
  /\ fed' > fed
  /\ \E k \in 0..(FirstHeaderStart(stream) - 1) : fed < k + 4 /\ k + 4 <= fed'

\* C23: a completion whose bytes make the framer reject a header start does
\* not call the error callback and does not stop reading: the error log and
\* running_ are as before, the event loop goes on, and transferCallback goes
\* on to resubmit the slot as after any other completed transfer.
C23_CorruptionIsSilent ==
  [][HeaderRejected =>
       /\ usbLog'.errors = usbLog.errors
       /\ usb'.running_ = usb.running_
       /\ usb'.running_
       /\ evt'.pc = "resubmit"
       /\ evt'.status = "LIBUSB_TRANSFER_COMPLETED"]_vars

\* both rejected header starts are behind: the frame after them has been
\* dispatched, nothing was reported, and a slot is in flight again
C23_Witness ==
  /\ sent # <<>>
  /\ fed = Len(stream)
  /\ usbLog.errors = <<>>
  /\ usb.running_
  /\ evt.pc = "handle"
  /\ \E i \in Slots : libusb.flight[i] = "submitted" /\ usb.transfers_[i].pending

\* ---- C30 --------------------------------------------------------------
\* C30: whatever the sequence of nativeStartReading, nativeStopReading and
\* nativeClose on a handle, the event thread calls dispatch on no dispatcher
\* whose destruction has begun: when the destruction of the dispatcher
\* begins, reading has been stopped and the event thread has ended.
C30_NoDispatchAfterDestruction ==
  /\ ~handle.late
  /\ handle.dispatcher # "alive" => ~usb.running_ /\ evt.pc \in {"none", "exited"}

\* ---- C21 --------------------------------------------------------------
\* no worker holds a mutex while it runs its callback
CallbacksRunUnlocked == \A c \in Class : worker[c].pc = "callback" => Held(c) = {}

\* C21: no worker holds a queue mutex or the stats mutex while it runs a
\* callback, and a dispatch call that has been entered returns, by steps of
\* the event thread alone, whatever the workers do: also when the queue of
\* the class is full and its worker never returns from the callback.
C21_DispatchReturns ==
  /\ []CallbacksRunUnlocked
  /\ (lk.ev.pc = "queueMutex") ~> (lk.ev.pc = "return")

\* dispatch is returning from a push that found the queue of the class full
\* while the worker of the class is inside the callback
C21_Witness ==
  LET c == getChannelPriority(lk.ev.channel)
  IN  /\ lk.ev.pc = "return"
      /\ worker[c].pc = "callback"
      /\ pushLog[c] # <<>>
      /\ pushLog[c][Len(pushLog[c])].full

\* ---- C28 --------------------------------------------------------------
\* C28: the event thread holds no mutex when it is about to lock one, it
\* reads errorCallback_ with callbackMutex_ held, and it holds no mutex
\* while it runs the host's error callback; a worker holds no mutex while it
\* runs its callback.
C28_LockDiscipline ==
  /\ lk.ev.pc \in {"callbackMutex", "queueMutex", "statsMutex"} => Held("event") = {}
  /\ lk.ev.pc = "readErrorCallback" => lk.holder["callback"] = "event"
  /\ lk.ev.pc = "errorCallback" => Held("event") = {}
  /\ CallbacksRunUnlocked

\* ---- C31 --------------------------------------------------------------
\* C31: whatever the interleaving of dispatch calls and worker pops, each
\* class's queue holds at most maxSize_ messages.
C31_QueueWithinCapacity == \A c \in Class : Len(queue[c]) <= maxSize(c)

\* a push has found the queue of a class full, and the queue of a class is
\* at its capacity after pushes and pops
C31_Witness ==
  \E c \in Class :
    /\ Len(queue[c]) = maxSize(c)
    /\ delivered[c] # <<>>
    /\ \E k \in 1..Len(pushLog[c]) : pushLog[c][k].full

\* ---- C32 --------------------------------------------------------------
\* the push of this step, if it is one on class c that found the queue shut
\* down
FoundShutdown(c) ==
  /\ Len(pushLog[c]') = Len(pushLog[c]) + 1
  /\ pushLog[c]'[Len(pushLog[c]')].shutdown

\* C32: a dispatch call whose push is refused because the queue of its class
\* has been shut down changes no statistics counter: it is counted neither
\* as dispatched nor as a drop, whatever the class.
C32_RejectedNotCounted ==
  [][\A c \in Class : FoundShutdown(c) => stats_' = stats_]_vars

\* ---- C33 --------------------------------------------------------------
\* the first startReading() that got past its checks has returned early
\* because libusb_alloc_transfer failed, and no other has been started
StartFailed == usbLog.allocFailures > 0 /\ usbLog.starts = 1

\* C33: a startReading() that fails part-way leaves the connection not
\* reading, with no transfer in flight and no event thread; and when a
\* following stopReading(), called directly or by close(), returns, no slot
\* holds a transfer or a buffer.
C33_FailedStartLeavesNothing ==
  /\ (StartFailed /\ host.pc = "idle") =>
       /\ ~usb.running_
       /\ \A i \in Slots : InFlightOf(i) = 0
       /\ usb.eventThread_ = "none"
       /\ evt.pc = "none"
  /\ (StartFailed /\ host.pc = "stop_return") =>
       \A i \in Slots : ~usb.transfers_[i].transfer /\ ~usb.transfers_[i].buffer

====
